---- MODULE Spec2Model ----
(***************************************************************************)
(* SPC analysis core of the dashboard: calculateAnalysisData and its       *)
(* helpers (src/src/app/spcUtils.ts), the page handler that calls it       *)
(* (src/src/app/dashboard/page.tsx) and the single-point variant           *)
(* analyzeData (src/src/lib/spcAnalysis.ts).                               *)
(*                                                                         *)
(* Numbers.  A JavaScript number is modelled as a pair <<n, d>>:           *)
(*   d > 0          the rational n/d in lowest terms,                      *)
(*   <<1, 0>>       +Infinity,   <<-1, 0>>  -Infinity,   <<0, 0>>  NaN.    *)
(* Arithmetic is exact (no binary rounding); the IEEE rules for the        *)
(* non-finite values are kept.  Negative zero is not distinguished.        *)
(* A value that involves a square root is a "surd" [c |-> x, q |-> r]      *)
(* standing for x * sqrt(r), with x a number and r a positive rational.    *)
(***************************************************************************)
EXTENDS Integers, Sequences, FiniteSets, TLC

VARIABLES
  inspectionData,   \* the records the data service returns for the request
  selectedShifts,   \* formData.selectedShifts
  sampleSize,       \* the subgroup size asked for
  pc,               \* "ready" | "fetching" | "done"
  entry,            \* the entry point that was called
  loading,          \* the page's loading flag
  result,           \* the AnalysisData returned / shown, NoResult when none
  error,            \* the Error thrown / shown / logged, NoError when none
  chartData,        \* the chartData prop of SPCPatternDetection
  patterns          \* the patterns SPCPatternDetection computes, NoPatterns before

vars == <<inspectionData, selectedShifts, sampleSize, pc, entry, loading, result, error,
          chartData, patterns>>

----------------------------------------------------------------------------
(* Integer helpers *)

AbsInt(i) == IF i < 0 THEN -i ELSE i

SignInt(i) == IF i < 0 THEN -1 ELSE IF i > 0 THEN 1 ELSE 0

RECURSIVE GCD(_, _)
GCD(a, b) == IF b = 0 THEN a ELSE GCD(b, a % b)

RECURSIVE Pow10(_)
Pow10(k) == IF k = 0 THEN 1 ELSE 10 * Pow10(k - 1)

\* floor(sqrt(m)) for m >= 0, by bisection on [lo, hi)
RECURSIVE ISqrtIn(_, _, _)
ISqrtIn(m, lo, hi) ==
  IF hi - lo <= 1 THEN lo
  ELSE LET mid == (lo + hi) \div 2
       IN  IF mid <= m \div mid THEN ISqrtIn(m, mid, hi) ELSE ISqrtIn(m, lo, mid)

ISqrt(m) == IF m = 0 THEN 0 ELSE ISqrtIn(m, 1, 46341)

\* (m * 10^k) mod r and floor(m * 10^k / r) for m >= 0, r > 0, one decimal
\* digit at a time, so that no intermediate product leaves the integer range
RECURSIVE ScaleRem(_, _, _)
ScaleRem(m, r, k) == IF k = 0 THEN m % r ELSE (10 * ScaleRem(m, r, k - 1)) % r

RECURSIVE ScaleDiv(_, _, _)
ScaleDiv(m, r, k) ==
  IF k = 0 THEN m \div r
  ELSE 10 * ScaleDiv(m, r, k - 1) + ((10 * ScaleRem(m, r, k - 1)) \div r)

----------------------------------------------------------------------------
(* JavaScript numbers *)

NaN == <<0, 0>>

PosInf == <<1, 0>>

NegInf == <<-1, 0>>

Norm(n, d) ==
  LET g == GCD(AbsInt(n), d) IN <<n \div g, d \div g>>

Num(i) == <<i, 1>>

Zero == Num(0)

IsNaN(x) == x = NaN

IsFinite(x) == x[2] > 0

Sgn(x) == SignInt(x[1])

Neg(x) == <<-x[1], x[2]>>

Abs(x) == <<AbsInt(x[1]), x[2]>>

Add(x, y) ==
  IF IsNaN(x) \/ IsNaN(y) THEN NaN
  ELSE IF ~IsFinite(x) /\ ~IsFinite(y) THEN (IF x = y THEN x ELSE NaN)
  ELSE IF ~IsFinite(x) THEN x
  ELSE IF ~IsFinite(y) THEN y
  ELSE LET g == GCD(x[2], y[2])
       IN  Norm(x[1] * (y[2] \div g) + y[1] * (x[2] \div g), (x[2] \div g) * y[2])

Sub(x, y) == Add(x, Neg(y))

Mul(x, y) ==
  IF IsNaN(x) \/ IsNaN(y) THEN NaN
  ELSE IF ~IsFinite(x) \/ ~IsFinite(y)
       THEN (IF Sgn(x) = 0 \/ Sgn(y) = 0 THEN NaN ELSE <<Sgn(x) * Sgn(y), 0>>)
  ELSE IF x[1] = 0 \/ y[1] = 0 THEN Zero
  ELSE LET g1 == GCD(AbsInt(x[1]), y[2])
           g2 == GCD(AbsInt(y[1]), x[2])
       IN  <<(x[1] \div g1) * (y[1] \div g2), (x[2] \div g2) * (y[2] \div g1)>>

Div(x, y) ==
  IF IsNaN(x) \/ IsNaN(y) THEN NaN
  ELSE IF ~IsFinite(x) /\ ~IsFinite(y) THEN NaN
  ELSE IF ~IsFinite(x) THEN <<Sgn(x) * (IF Sgn(y) < 0 THEN -1 ELSE 1), 0>>
  ELSE IF ~IsFinite(y) THEN Zero
  ELSE IF y[1] = 0 THEN <<Sgn(x), 0>>
  ELSE Mul(x, <<SignInt(y[1]) * y[2], AbsInt(y[1])>>)

\* a/b < c/d for b, d > 0, by comparing the continued-fraction expansions
\* (integer parts first, then the reciprocals of the fractional parts), so
\* that no product is formed
RECURSIVE FracLt(_, _, _, _)
FracLt(a, b, c, d) ==
  LET fa == a \div b
      fc == c \div d
      ra == a % b
      rc == c % d
  IN  IF fa # fc THEN fa < fc
      ELSE IF rc = 0 THEN FALSE
      ELSE IF ra = 0 THEN TRUE
      ELSE FracLt(d, rc, b, ra)

\* x < y; false as soon as one side is NaN
Lt(x, y) ==
  IF IsNaN(x) \/ IsNaN(y) THEN FALSE
  ELSE IF ~IsFinite(x) THEN x = NegInf /\ y # NegInf
  ELSE IF ~IsFinite(y) THEN y = PosInf
  ELSE FracLt(x[1], x[2], y[1], y[2])

Gt(x, y) == Lt(y, x)

Le(x, y) == ~IsNaN(x) /\ ~IsNaN(y) /\ ~Lt(y, x)

Ge(x, y) == Le(y, x)

\* Math.min / Math.max of two numbers
MathMin2(x, y) ==
  IF IsNaN(x) \/ IsNaN(y) THEN NaN ELSE IF Lt(y, x) THEN y ELSE x

MathMax2(x, y) ==
  IF IsNaN(x) \/ IsNaN(y) THEN NaN ELSE IF Lt(x, y) THEN y ELSE x

\* Math.min(...xs) / Math.max(...xs)
RECURSIVE MathMin(_)
MathMin(xs) ==
  IF xs = <<>> THEN PosInf ELSE MathMin2(Head(xs), MathMin(Tail(xs)))

RECURSIVE MathMax(_)
MathMax(xs) ==
  IF xs = <<>> THEN NegInf ELSE MathMax2(Head(xs), MathMax(Tail(xs)))

\* Math.floor
Floor(x) == IF IsFinite(x) THEN Num(x[1] \div x[2]) ELSE x

\* Number(x.toFixed(k)): nearest multiple of 10^-k, ties away from zero;
\* NaN and the infinities print as such and read back unchanged
ToFixed(x, k) ==
  IF ~IsFinite(x) THEN x
  ELSE LET a  == AbsInt(x[1])
           d  == x[2]
           \* floor(|x| * 10^k + 1/2) = floor((2 * a * 10^k + d) / (2 d))
           fl == ScaleDiv(a, d, k)
           rm == ScaleRem(a, d, k)
           up == IF 2 * rm >= d THEN 1 ELSE 0
       IN  Norm(Sgn(x) * (fl + up), Pow10(k))

RECURSIVE Sum(_)
Sum(xs) == IF xs = <<>> THEN Zero ELSE Add(Head(xs), Sum(Tail(xs)))

----------------------------------------------------------------------------
(* Text fields and parseFloat.  A text is a sequence of one-character       *)
(* strings; the null field value is the one-element sequence Null, whose    *)
(* element is no character.  Exponent notation is not modelled: no text     *)
(* drawn below contains "e" or "E" after a digit.                           *)

Null == <<"null">>

DigitChars == <<"0", "1", "2", "3", "4", "5", "6", "7", "8", "9">>

IsDigit(ch) == \E i \in 1..10 : DigitChars[i] = ch

DigitVal(ch) == (CHOOSE i \in 1..10 : DigitChars[i] = ch) - 1

InfinityText == <<"I", "n", "f", "i", "n", "i", "t", "y">>

RECURSIVE SkipWhite(_)
SkipWhite(s) ==
  IF s # <<>> /\ Head(s) = " " THEN SkipWhite(Tail(s)) ELSE s

\* length of the longest prefix of s made of digits
RECURSIVE DigitRun(_)
DigitRun(s) ==
  IF s # <<>> /\ IsDigit(Head(s)) THEN 1 + DigitRun(Tail(s)) ELSE 0

\* value of a sequence of digits read as a decimal integer
RECURSIVE DigitsValue(_)
DigitsValue(s) ==
  IF s = <<>> THEN 0
  ELSE 10 * DigitsValue(SubSeq(s, 1, Len(s) - 1)) + DigitVal(s[Len(s)])

StartsWith(s, p) == Len(s) >= Len(p) /\ SubSeq(s, 1, Len(p)) = p

\* mag or -mag
Signed(neg, mag) == IF neg THEN Neg(mag) ELSE mag

\* the decimal literal with integer digits id and fraction digits fd; NaN
\* when there is no digit at all
DecimalValue(id, fd) ==
  IF Len(id) + Len(fd) = 0 THEN NaN
  ELSE Norm(DigitsValue(id) * Pow10(Len(fd)) + DigitsValue(fd), Pow10(Len(fd)))

\* the digits after a leading "." of v
FractionDigits(v) ==
  IF v # <<>> /\ Head(v) = "." THEN SubSeq(Tail(v), 1, DigitRun(Tail(v))) ELSE <<>>

\* u read as digits [. digits], ni being the number of its leading digits
DecimalAt(u, ni) ==
  DecimalValue(SubSeq(u, 1, ni), FractionDigits(SubSeq(u, ni + 1, Len(u))))

\* the unsigned literal at the head of u: Infinity, or a decimal
Unsigned(u) ==
  IF StartsWith(u, InfinityText) THEN PosInf ELSE DecimalAt(u, DigitRun(u))

\* the literal at the head of t, with its sign
SignedLiteral(t) ==
  Signed(t # <<>> /\ Head(t) = "-",
         Unsigned(IF t # <<>> /\ Head(t) \in {"-", "+"} THEN Tail(t) ELSE t))

\* parseFloat(s): skip leading white space, read the longest prefix that is
\* a decimal literal ([+-] (Infinity | digits [. digits] | . digits)), ignore
\* whatever follows it, NaN when there is no such prefix
parseFloat(s) == SignedLiteral(SkipWhite(s))

\* isNaN(x) for a number x
isNaN(x) == IsNaN(x)

----------------------------------------------------------------------------
(* Square roots.  A surd [c |-> x, q |-> m] is x * sqrt(m), m a square-free  *)
(* positive integer; m = 1 whenever x is zero or not finite, so that equal  *)
(* values have equal representations.                                       *)

\* m = s * s * f with f square-free: <<s, f>>, by trial division from k
RECURSIVE SquareSplit(_, _, _, _)
SquareSplit(m, k, s, f) ==
  IF k * k > m THEN <<s, f * m>>
  ELSE IF m % (k * k) = 0 THEN SquareSplit(m \div (k * k), k, s * k, f)
  ELSE IF m % k = 0 THEN SquareSplit(m \div k, k + 1, s, f * k)
  ELSE SquareSplit(m, k + 1, s, f)

Surd(x, m) ==
  IF ~IsFinite(x) \/ x[1] = 0 THEN [c |-> x, q |-> 1] ELSE [c |-> x, q |-> m]

SurdOf(x) == Surd(x, 1)

\* Math.sqrt(v)
MathSqrt(v) ==
  IF IsNaN(v) \/ Sgn(v) < 0 THEN SurdOf(NaN)
  ELSE IF ~IsFinite(v) \/ v[1] = 0 THEN SurdOf(v)
  ELSE LET sn == SquareSplit(v[1], 2, 1, 1)
           sd == SquareSplit(v[2], 2, 1, 1)
           \* sqrt(n/d) = (sn1 / (sd1 * sd2)) * sqrt(sn2 * sd2)
       IN  Surd(Norm(sn[1], sd[1] * sd[2]), sn[2] * sd[2])

\* the square of a surd, a number
SurdSquare(s) == Mul(Mul(s.c, s.c), Num(s.q))

SurdSgn(s) == Sgn(s.c)

SurdIsNaN(s) == IsNaN(s.c)

SurdIsFinite(s) == IsFinite(s.c)

\* x / s and k * s for a number x, k and a surd s
DivBySurd(x, s) == Surd(Div(x, Mul(s.c, Num(s.q))), s.q)

SurdTimes(k, s) == Surd(Mul(k, s.c), s.q)

SurdNeg(s) == [c |-> Neg(s.c), q |-> s.q]

\* r^2 * sq < tq for a ratio r = n/d > 0, decided as (n * sq) / d < (tq * d) / n;
\* a ratio beyond 46340 either way is decided by its size alone
RatioLt(r, sq, tq) ==
  IF r[1] \div r[2] >= 46340 THEN FALSE
  ELSE IF r[2] \div r[1] >= 46340 THEN TRUE
  ELSE FracLt(r[1] * sq, r[2], tq * r[2], r[1])

\* s < t for positive s and t with different radicands
PosSurdLt(s, t) ==
  IF ~IsFinite(s.c) \/ ~IsFinite(t.c) THEN Lt(s.c, t.c)
  ELSE RatioLt(Div(s.c, t.c), s.q, t.q)

\* s < t
SurdLt(s, t) ==
  IF SurdIsNaN(s) \/ SurdIsNaN(t) THEN FALSE
  ELSE IF s.q = t.q THEN Lt(s.c, t.c)
  ELSE IF SurdSgn(s) # SurdSgn(t) THEN SurdSgn(s) < SurdSgn(t)
  ELSE PosSurdLt(IF SurdSgn(s) > 0 THEN s ELSE SurdNeg(t),
                 IF SurdSgn(s) > 0 THEN t ELSE SurdNeg(s))

SurdGe(s, t) == ~SurdIsNaN(s) /\ ~SurdIsNaN(t) /\ ~SurdLt(s, t)

\* s === t
SurdEq(s, t) == ~SurdIsNaN(s) /\ s = t

\* Math.min(s, t)
SurdMin(s, t) ==
  IF SurdIsNaN(s) \/ SurdIsNaN(t) THEN SurdOf(NaN)
  ELSE IF SurdLt(t, s) THEN t ELSE s

\* floor(sqrt(sq) * 10^k + 1/2) = (isqrt(floor(4 * 10^2k * sq)) + 1) div 2
RootRounded(sq, k) == (ISqrt(ScaleDiv(4 * sq[1], sq[2], 2 * k)) + 1) \div 2

\* Number(s.toFixed(k))
SurdToFixed(s, k) ==
  IF s.q = 1 THEN ToFixed(s.c, k)
  ELSE Norm(SurdSgn(s) * RootRounded(SurdSquare(s), k), Pow10(k))

----------------------------------------------------------------------------
(* src/src/app/spcUtils.ts: constants and helpers *)

\* the value null of a "number | null"
JsNull == <<0, -1>>

\* the value null of a "surd | null"
NullSurd == [c |-> JsNull, q |-> 1]

\* x ?? y
Coalesce(x, y) == IF x = JsNull THEN y ELSE x

\* a decimal literal n * 10^-k
Dec(n, k) == Norm(n, Pow10(k))

controlChartConstants ==
  [n \in 1..5 |->
     CASE n = 1 -> [A2 |-> Dec(2660, 3), D3 |-> Zero, D4 |-> Dec(3267, 3), d2 |-> Dec(1128, 3)]
       [] n = 2 -> [A2 |-> Dec(1880, 3), D3 |-> Zero, D4 |-> Dec(3267, 3), d2 |-> Dec(1128, 3)]
       [] n = 3 -> [A2 |-> Dec(1772, 3), D3 |-> Zero, D4 |-> Dec(2574, 3), d2 |-> Dec(1693, 3)]
       [] n = 4 -> [A2 |-> Dec(796, 3),  D3 |-> Zero, D4 |-> Dec(2282, 3), d2 |-> Dec(2059, 3)]
       [] n = 5 -> [A2 |-> Dec(691, 3),  D3 |-> Zero, D4 |-> Dec(2114, 3), d2 |-> Dec(2326, 3)]]

\* the divisor clamp 0.000001
SigmaEpsilon == Dec(1, 6)

MapSeq(F(_), xs) == [i \in 1..Len(xs) |-> F(xs[i])]

calculateMean(data) ==
  IF Len(data) = 0 THEN JsNull ELSE Div(Sum(data), Num(Len(data)))

\* Math.pow(x, 2)
Square(x) == Mul(x, x)

\* data.map((value) => Math.pow(value - dataMean, 2))
SquaredDiffs(data, dataMean) ==
  [i \in 1..Len(data) |-> Square(Sub(data[i], dataMean))]

\* variance !== null ? Math.sqrt(variance) : null
SqrtOrNull(variance) ==
  IF variance # JsNull THEN MathSqrt(variance) ELSE NullSurd

\* calculateStdDev once dataMean is fixed
StdDevAbout(data, dataMean) ==
  IF dataMean = JsNull THEN NullSurd
  ELSE SqrtOrNull(calculateMean(SquaredDiffs(data, dataMean)))

\* calculateStdDev with the divisor data.length - 1
calculateStdDev_Sample(data, mean) ==
  IF Len(data) = 0 THEN NullSurd
  ELSE MathSqrt(Div(Sum(SquaredDiffs(data, Coalesce(mean, calculateMean(data)))),
                    Num(Len(data) - 1)))

\* null, or the surd sqrt(mean of the squared deviations): the divisor is
\* data.length
calculateStdDev(data, mean) ==
  IF Len(data) = 0 THEN NullSurd
  ELSE StdDevAbout(data, Coalesce(mean, calculateMean(data)))

\* measurements.slice(i, Math.min(i + sampleSize, measurements.length)), i 0-based
Slice(xs, i, n) ==
  SubSeq(xs, i + 1, IF i + n < Len(xs) THEN i + n ELSE Len(xs))

\* what one subgroup adds to xBarValues
SubgroupAverage(subgroup) ==
  IF Len(subgroup) > 0 THEN <<Div(Sum(subgroup), Num(Len(subgroup)))>> ELSE <<>>

RECURSIVE XBarFrom(_, _, _)
XBarFrom(measurements, n, i) ==
  IF i >= Len(measurements) THEN <<>>
  ELSE SubgroupAverage(Slice(measurements, i, n)) \o XBarFrom(measurements, n, i + n)

calculateSubgroupXBar(measurements, n) ==
  IF n = 1 THEN measurements ELSE XBarFrom(measurements, n, 0)

\* what one subgroup adds to ranges
SubgroupRange(subgroup) ==
  IF Len(subgroup) >= 2 THEN <<Sub(MathMax(subgroup), MathMin(subgroup))>> ELSE <<>>

RECURSIVE RangesFrom(_, _, _)
RangesFrom(measurements, n, i) ==
  IF i >= Len(measurements) THEN <<>>
  ELSE SubgroupRange(Slice(measurements, i, n)) \o RangesFrom(measurements, n, i + n)

\* calculateSubgroupRanges with the moving range signed (no Math.abs)
calculateSubgroupRanges_Signed(measurements, n) ==
  IF n = 1
  THEN [i \in 1..(IF Len(measurements) = 0 THEN 0 ELSE Len(measurements) - 1) |->
          Sub(measurements[i + 1], measurements[i])]
  ELSE RangesFrom(measurements, n, 0)

calculateSubgroupRanges(measurements, n) ==
  IF n = 1
  THEN [i \in 1..(IF Len(measurements) = 0 THEN 0 ELSE Len(measurements) - 1) |->
          Abs(Sub(measurements[i + 1], measurements[i]))]
  ELSE RangesFrom(measurements, n, 0)

\* Math.ceil(Math.sqrt(n)) for an integer n >= 0
CeilSqrt(n) == LET r == ISqrt(n) IN IF r * r = n THEN r ELSE r + 1

\* x === y on numbers
StrictEq(x, y) == ~IsNaN(x) /\ ~IsNaN(y) /\ x = y

\* BinWithin with the first bin left out (> for >=)
BinWithin_AboveFirst(binIndex, binCount) ==
  IF Gt(binIndex, Zero) /\ Lt(binIndex, Num(binCount)) THEN binIndex[1] ELSE -1

\* if (binIndex >= 0 && binIndex < binCount): the bin, -1 when there is none
BinWithin(binIndex, binCount) ==
  IF Ge(binIndex, Zero) /\ Lt(binIndex, Num(binCount)) THEN binIndex[1] ELSE -1

\* the 0-based bin a value is counted in, -1 when the value is counted nowhere
BinOf(value, max, binStart, binWidth, binCount) ==
  IF StrictEq(value, max) THEN binCount - 1
  ELSE BinWithin(Floor(Div(Sub(value, binStart), binWidth)), binCount)

\* the bins after data.forEach: bins[b] counts the values placed in bin b - 1
FillBins(data, max, binStart, binWidth, binCount) ==
  [b \in 1..binCount |->
     Cardinality({i \in 1..Len(data) :
                    BinOf(data[i], max, binStart, binWidth, binCount) = b - 1})]

\* binEdges[i], i 0-based
BinEdge(binStart, binWidth, i) == Add(binStart, Mul(Num(i), binWidth))

\* bins.map((count, i) => ({x: Number((binEdges[i] + binWidth / 2).toFixed(4)), y: count}))
HistData(bins, binStart, binWidth) ==
  [i \in 1..Len(bins) |->
     [x |-> ToFixed(Add(BinEdge(binStart, binWidth, i - 1), Div(binWidth, Num(2))), 4),
      y |-> bins[i]]]

NoDistribution == [none |-> TRUE]

\* calculateDistributionData once the bin width and the first edge are fixed
DistributionOver(data, lsl, usl, min, max, binCount, binWidth, binStart) ==
  [data  |-> HistData(FillBins(data, max, binStart, binWidth, binCount),
                      binStart, binWidth),
   stats |-> [min      |-> min,
              max      |-> max,
              mean     |-> Coalesce(calculateMean(data), Zero),
              target   |-> Div(Add(usl, lsl), Num(2)),
              binEdges |-> [i \in 1..(binCount + 1) |->
                              BinEdge(binStart, binWidth, i - 1)]]]

\* calculateDistributionData once min, max and binCount are fixed
DistributionBetween(data, lsl, usl, min, max, binCount) ==
  DistributionOver(data, lsl, usl, min, max, binCount,
                   Div(Sub(max, min), Num(binCount)), MathMin2(min, lsl))

calculateDistributionData(data, lsl, usl) ==
  IF Len(data) = 0 THEN NoDistribution
  ELSE DistributionBetween(data, lsl, usl, MathMin(data), MathMax(data),
                           CeilSqrt(Len(data)))

\* the run counters of analyzeRuns after the first i values:
\* <<currentRunAbove, currentRunBelow, maxRunAbove, maxRunBelow>>
RECURSIVE RunsUpTo(_, _, _)
RunsUpTo(data, mean, i) ==
  IF i = 0 THEN <<0, 0, 0, 0>>
  ELSE LET r == RunsUpTo(data, mean, i - 1)
       IN  IF Gt(data[i], mean)
           THEN <<r[1] + 1, 0, IF r[1] + 1 > r[3] THEN r[1] + 1 ELSE r[3], r[4]>>
           ELSE IF Lt(data[i], mean)
           THEN <<0, r[2] + 1, r[3], IF r[2] + 1 > r[4] THEN r[2] + 1 ELSE r[4]>>
           ELSE <<0, 0, r[3], r[4]>>

\* the trend counters after the loop has handled index i (1-based, from 2):
\* <<currentTrendUp, currentTrendDown, maxTrendUp, maxTrendDown>>
RECURSIVE TrendsUpTo(_, _)
TrendsUpTo(data, i) ==
  IF i <= 1 THEN <<1, 1, 1, 1>>
  ELSE LET t == TrendsUpTo(data, i - 1)
       IN  IF Gt(data[i], data[i - 1])
           THEN <<t[1] + 1, 1, IF t[1] + 1 > t[3] THEN t[1] + 1 ELSE t[3], t[4]>>
           ELSE IF Lt(data[i], data[i - 1])
           THEN <<1, t[2] + 1, t[3], IF t[2] + 1 > t[4] THEN t[2] + 1 ELSE t[4]>>
           ELSE <<1, 1, t[3], t[4]>>

NoRuns == [none |-> TRUE]

\* analyzeRuns counting every value on a side of the mean, consecutive or not
analyzeRuns_Total(data) ==
  IF Len(data) = 0 THEN NoRuns
  ELSE LET mean == calculateMean(data)
           t    == TrendsUpTo(data, Len(data))
       IN  IF mean = JsNull THEN NoRuns
           ELSE [maxRunAbove  |-> Cardinality({i \in 1..Len(data) : Gt(data[i], mean)}),
                 maxRunBelow  |-> Cardinality({i \in 1..Len(data) : Lt(data[i], mean)}),
                 maxTrendUp   |-> t[3],
                 maxTrendDown |-> t[4]]

analyzeRuns(data) ==
  IF Len(data) = 0 THEN NoRuns
  ELSE LET mean == calculateMean(data)
           r    == RunsUpTo(data, mean, Len(data))
           t    == TrendsUpTo(data, Len(data))
       IN  IF mean = JsNull THEN NoRuns
           ELSE [maxRunAbove  |-> r[3],
                 maxRunBelow  |-> r[4],
                 maxTrendUp   |-> t[3],
                 maxTrendDown |-> t[4]]

----------------------------------------------------------------------------
(* src/src/app/spcUtils.ts: calculateAnalysisData *)

\* an Error message: its text, with the values interpolated into it
Message(text, numbers) == [text |-> text, numbers |-> numbers]

NoMessage == Message("", <<>>)

NoResult == [none |-> TRUE]

Throw(msg) == [threw |-> TRUE, message |-> msg, value |-> NoResult]

Return(v) == [threw |-> FALSE, message |-> NoMessage, value |-> v]

\* the filter predicate of calculateAnalysisData
IsValidRecord(d) ==
  LET actual   == d.ActualSpecification
      fromSpec == d.FromSpecification
      toSpec   == d.ToSpecification
  IN  /\ actual # Null
      /\ ~isNaN(parseFloat(actual))
      /\ fromSpec # Null
      /\ ~isNaN(parseFloat(fromSpec))
      /\ toSpec # Null
      /\ ~isNaN(parseFloat(toSpec))

ActualOf(d) == parseFloat(d.ActualSpecification)

\* isFinite(v) ? v.toFixed(2) : "0.00", read back as a number
Index2(v) == IF SurdIsFinite(v) THEN SurdToFixed(v, 2) ELSE Zero

DecisionRemarkOf(cpk) ==
  IF SurdGe(cpk, SurdOf(Dec(167, 2))) THEN "Process Excellent"
  ELSE IF SurdGe(cpk, SurdOf(Dec(145, 2)))
       THEN "Process is more capable, Scope for Further Improvement"
  ELSE IF SurdGe(cpk, SurdOf(Dec(133, 2)))
       THEN "Process is capable, Scope for Further Improvement"
  ELSE IF SurdGe(cpk, SurdOf(Num(1)))
       THEN "Process is slightly capable, need 100% inspection"
  ELSE "Stop Process change, process design"

GradeOf(v) ==
  IF SurdGe(v, SurdOf(Dec(133, 2))) THEN "Excellent"
  ELSE IF SurdGe(v, SurdOf(Num(1))) THEN "Good" ELSE "Poor"

PointsText(k) == IF k > 0 THEN Message("{0} Points Detected", <<k>>)
                 ELSE Message("None", <<>>)

\* v ?? d for a value whose null is written nothing
OrElse(v, nothing, d) == IF v = nothing THEN d ELSE v

\* The locals of calculateAnalysisData, gathered in a record that grows as
\* the function proceeds: each operator below adds the constants a stretch of
\* the function declares to the record of those declared before it.

\* measurements, the limits read from the first valid record, the chart
\* constants and the mean
Statistics(measurements, lsl, usl, n) ==
  [measurements |-> measurements,
   lsl          |-> lsl,
   usl          |-> usl,
   n            |-> n,
   constants    |-> controlChartConstants[n],
   mean         |-> calculateMean(measurements)]

\* stdDev, xBarValues, rangeValues
Deviation(s) ==
  s @@ [stdDev      |-> calculateStdDev(s.measurements, s.mean),
        xBarValues  |-> calculateSubgroupXBar(s.measurements, s.n),
        rangeValues |-> calculateSubgroupRanges(s.measurements, s.n)]

\* grandMean, avgRange and the chart points
Centres(s) ==
  s @@ [grandMean |-> Coalesce(calculateMean(s.xBarValues), Zero),
        avgRange  |-> Coalesce(calculateMean(s.rangeValues), Zero),
        xBarData  |-> [i \in 1..Len(s.xBarValues) |-> [x |-> i, y |-> s.xBarValues[i]]],
        rangeData |-> [i \in 1..Len(s.rangeValues) |-> [x |-> i, y |-> s.rangeValues[i]]]]

\* ControlLimits with the mean chart's limits set off by D4, the range
\* chart's factor, in place of A2
ControlLimits_RangeFactor(s) ==
  s @@ [xBarUcl  |-> Add(s.grandMean, Mul(s.constants.D4, s.avgRange)),
        xBarLcl  |-> Sub(s.grandMean, Mul(s.constants.D4, s.avgRange)),
        rangeUcl |-> Mul(s.constants.D4, s.avgRange),
        rangeLcl |-> Mul(s.constants.D3, s.avgRange),
        withinStdDev |->
          IF s.n = 1 \/ s.constants.d2 = Zero THEN s.stdDev
          ELSE SurdOf(Div(s.avgRange, s.constants.d2))]

\* ControlLimits with the within-subgroup sigma estimated from the average
\* range for every subgroup size, 1 included
ControlLimits_MovingRangeSigma(s) ==
  s @@ [xBarUcl  |-> Add(s.grandMean, Mul(s.constants.A2, s.avgRange)),
        xBarLcl  |-> Sub(s.grandMean, Mul(s.constants.A2, s.avgRange)),
        rangeUcl |-> Mul(s.constants.D4, s.avgRange),
        rangeLcl |-> Mul(s.constants.D3, s.avgRange),
        withinStdDev |-> SurdOf(Div(s.avgRange, s.constants.d2))]

\* ControlLimits with the lower limit of the mean chart set off from the
\* centre by D4 times the average range
ControlLimits_LowerByD4(s) ==
  s @@ [xBarUcl  |-> Add(s.grandMean, Mul(s.constants.A2, s.avgRange)),
        xBarLcl  |-> Sub(s.grandMean, Mul(s.constants.D4, s.avgRange)),
        rangeUcl |-> Mul(s.constants.D4, s.avgRange),
        rangeLcl |-> Mul(s.constants.D3, s.avgRange),
        withinStdDev |->
          IF s.n = 1 \/ s.constants.d2 = Zero THEN s.stdDev
          ELSE SurdOf(Div(s.avgRange, s.constants.d2))]

\* the control limits and the within-subgroup sigma
ControlLimits(s) ==
  s @@ [xBarUcl  |-> Add(s.grandMean, Mul(s.constants.A2, s.avgRange)),
        xBarLcl  |-> Sub(s.grandMean, Mul(s.constants.A2, s.avgRange)),
        rangeUcl |-> Mul(s.constants.D4, s.avgRange),
        rangeLcl |-> Mul(s.constants.D3, s.avgRange),
        withinStdDev |->
          IF s.n = 1 \/ s.constants.d2 = Zero THEN s.stdDev
          ELSE SurdOf(Div(s.avgRange, s.constants.d2))]

\* the divisors, 0 replaced by 0.000001
Sigmas(s) ==
  s @@ [safeWithinStdDev |->
          IF SurdEq(s.withinStdDev, SurdOf(Zero)) THEN SurdOf(SigmaEpsilon)
          ELSE s.withinStdDev,
        safeStdDev |->
          IF SurdEq(s.stdDev, SurdOf(Zero)) THEN SurdOf(SigmaEpsilon) ELSE s.stdDev]

\* the capability and performance ratios, the distribution and the runs
Ratios(s) ==
  s @@ [cp  |-> DivBySurd(Sub(s.usl, s.lsl), SurdTimes(Num(6), s.safeWithinStdDev)),
        cpu |-> DivBySurd(Sub(s.usl, s.grandMean), SurdTimes(Num(3), s.safeWithinStdDev)),
        cpl |-> DivBySurd(Sub(s.grandMean, s.lsl), SurdTimes(Num(3), s.safeWithinStdDev)),
        pp  |-> DivBySurd(Sub(s.usl, s.lsl), SurdTimes(Num(6), s.safeStdDev)),
        ppu |-> DivBySurd(Sub(s.usl, s.grandMean), SurdTimes(Num(3), s.safeStdDev)),
        ppl |-> DivBySurd(Sub(s.grandMean, s.lsl), SurdTimes(Num(3), s.safeStdDev)),
        distribution |->
          OrElse(calculateDistributionData(s.measurements, s.lsl, s.usl), NoDistribution,
                 [data  |-> <<>>,
                  stats |-> [min |-> Zero, max |-> Zero, mean |-> Zero,
                             target |-> Div(Add(s.usl, s.lsl), Num(2)),
                             binEdges |-> <<>>]]),
        runsAnalysis |->
          OrElse(analyzeRuns(s.xBarValues), NoRuns,
                 [maxRunAbove |-> 0, maxRunBelow |-> 0,
                  maxTrendUp |-> 0, maxTrendDown |-> 0])]

\* Cpk, Ppk and the special-cause counts
Capability(s) ==
  s @@ [cpk |-> SurdMin(s.cpu, s.cpl),
        ppk |-> SurdMin(s.ppu, s.ppl),
        pointsOutsideXBarLimits |->
          Cardinality({i \in 1..Len(s.xBarData) :
                         Gt(s.xBarData[i].y, s.xBarUcl) \/ Lt(s.xBarData[i].y, s.xBarLcl)}),
        pointsOutsideRangeLimits |->
          Cardinality({i \in 1..Len(s.rangeData) :
                         Gt(s.rangeData[i].y, s.rangeUcl) \/ Lt(s.rangeData[i].y, s.rangeLcl)}),
        hasEightConsecutive |->
          s.runsAnalysis.maxRunAbove >= 8 \/ s.runsAnalysis.maxRunBelow >= 8,
        hasSixConsecutiveTrend |->
          s.runsAnalysis.maxTrendUp >= 6 \/ s.runsAnalysis.maxTrendDown >= 6]

\* Interpretation with the shift and spread verdicts read from the
\* performance indices (Ppk, Pp) in place of the capability indices
Interpretation_OnPerformance(s) ==
  s @@ [processShift |->
          IF SurdLt(s.ppk, SurdTimes(Dec(75, 2), s.pp)) THEN "Yes" ELSE "No",
        processSpread |-> IF SurdLt(s.pp, SurdOf(Num(1))) THEN "Yes" ELSE "No",
        specialCausePresent |->
          IF SurdGe(s.pp, s.cp) THEN "Special Cause Detection impossible"
          ELSE IF SurdLt(s.pp, SurdTimes(Dec(75, 2), s.cp)) THEN "Yes" ELSE "No",
        decisionRemark |-> DecisionRemarkOf(s.cpk)]

\* the 3S analysis and the decision remark
Interpretation(s) ==
  s @@ [processShift |->
          IF SurdLt(s.cpk, SurdTimes(Dec(75, 2), s.cp)) THEN "Yes" ELSE "No",
        processSpread |-> IF SurdLt(s.cp, SurdOf(Num(1))) THEN "Yes" ELSE "No",
        specialCausePresent |->
          IF SurdGe(s.pp, s.cp) THEN "Special Cause Detection impossible"
          ELSE IF SurdLt(s.pp, SurdTimes(Dec(75, 2), s.cp)) THEN "Yes" ELSE "No",
        decisionRemark |-> DecisionRemarkOf(s.cpk)]

\* the object returned
AnalysisObject(s) ==
  [metrics |->
     [xBar          |-> ToFixed(s.grandMean, 4),
      stdDevOverall |-> SurdToFixed(s.stdDev, 4),
      stdDevWithin  |-> SurdToFixed(s.withinStdDev, 4),
      avgRange      |-> ToFixed(s.avgRange, 4),
      cp  |-> Index2(s.cp),
      cpu |-> Index2(s.cpu),
      cpl |-> Index2(s.cpl),
      cpk |-> Index2(s.cpk),
      pp  |-> Index2(s.pp),
      ppu |-> Index2(s.ppu),
      ppl |-> Index2(s.ppl),
      ppk |-> Index2(s.ppk),
      lsl    |-> ToFixed(s.lsl, 3),
      usl    |-> ToFixed(s.usl, 3),
      target |-> ToFixed(Div(Add(s.usl, s.lsl), Num(2)), 3)],
   controlCharts |->
     [xBarData  |-> s.xBarData,
      rangeData |-> s.rangeData,
      limits |->
        [xBarUcl   |-> ToFixed(s.xBarUcl, 4),
         xBarMean  |-> ToFixed(s.grandMean, 4),
         xBarLcl   |-> ToFixed(s.xBarLcl, 4),
         rangeUcl  |-> ToFixed(s.rangeUcl, 4),
         rangeMean |-> ToFixed(s.avgRange, 4),
         rangeLcl  |-> ToFixed(s.rangeLcl, 4),
         Agostinho |->
           SurdToFixed(DivBySurd(Abs(Sub(s.grandMean, s.distribution.stats.mean)),
                                 s.stdDev), 4)]],
   distribution |-> s.distribution,
   ssAnalysis |->
     [processShift             |-> s.processShift,
      processSpread            |-> s.processSpread,
      specialCausePresent      |-> s.specialCausePresent,
      pointsOutsideLimits      |-> PointsText(s.pointsOutsideXBarLimits),
      rangePointsOutsideLimits |-> PointsText(s.pointsOutsideRangeLimits),
      eightConsecutivePoints   |-> IF s.hasEightConsecutive THEN "Yes" ELSE "No",
      sixConsecutiveTrend      |-> IF s.hasSixConsecutiveTrend THEN "Yes" ELSE "No"],
   processInterpretation |->
     [decisionRemark     |-> s.decisionRemark,
      processPotential   |-> GradeOf(s.cp),
      processPerformance |-> GradeOf(s.cpk),
      processStability   |->
        IF s.pointsOutsideXBarLimits = 0 /\ ~s.hasEightConsecutive
        THEN "Stable" ELSE "Unstable",
      processShift |-> IF s.hasEightConsecutive THEN "Present" ELSE "Not Detected"]]

\* calculateAnalysisData from the null test on the statistics
AnalyseStatistics(s) ==
  IF s.mean = JsNull \/ s.stdDev = NullSurd
  THEN Throw(Message("Failed to calculate statistics", <<>>))
  ELSE Return(AnalysisObject(Interpretation(Capability(Ratios(Sigmas(
                ControlLimits(Centres(s))))))))

\* AnalyseMeasurements with the count test off by one (<= for <)
AnalyseMeasurements_OffByOne(validData, measurements, n) ==
  IF Len(measurements) <= n
  THEN Throw(Message("Insufficient valid data for analysis", <<>>))
  ELSE AnalyseStatistics(Deviation(Statistics(
         measurements,
         parseFloat(validData[1].FromSpecification),
         parseFloat(validData[1].ToSpecification), n)))

\* calculateAnalysisData from the count test on the measurements
AnalyseMeasurements(validData, measurements, n) ==
  IF Len(measurements) < n
  THEN Throw(Message("Insufficient valid data for analysis", <<>>))
  ELSE AnalyseStatistics(Deviation(Statistics(
         measurements,
         parseFloat(validData[1].FromSpecification),
         parseFloat(validData[1].ToSpecification), n)))

\* calculateAnalysisData once the records are filtered
AnalyseValid(validData, n) ==
  AnalyseMeasurements(validData, MapSeq(ActualOf, validData), n)

calculateAnalysisData(data, n) ==
  IF n \notin DOMAIN controlChartConstants \/ n < 1 \/ n > 5
  THEN Throw(Message("Sample size must be between 1 and 5", <<>>))
  ELSE AnalyseValid(SelectSeq(data, IsValidRecord), n)

----------------------------------------------------------------------------
(* src/unnamed/part_002: the earlier calculateAnalysisData kept beside the  *)
(* one of spcUtils.ts.  It forms the subgroups itself, divides by the       *)
(* unclamped sigmas and reports the indices without the isFinite test; its  *)
(* locals are gathered in a record as above.                                 *)

\* the earlier analyzeRuns: runs counted on the test value > mean alone
analyzeRunsEarlier(data) ==
  LET mean == calculateMean(data)
      \* <<runsAbove, runsBelow, maxRunLength, currentRun, prevAboveMean>>
      \* after the first i values
      RECURSIVE RunsTo(_)
      RunsTo(i) ==
        IF i = 0 THEN <<0, 0, 0, 0, "null">>
        ELSE LET r == RunsTo(i - 1)
                 isAboveMean == IF Gt(data[i], mean) THEN "true" ELSE "false"
             IN  IF r[5] = "null" THEN <<r[1], r[2], r[3], 1, isAboveMean>>
                 ELSE IF isAboveMean = r[5] THEN <<r[1], r[2], r[3], r[4] + 1, r[5]>>
                 ELSE <<IF r[5] = "true" THEN r[1] + 1 ELSE r[1],
                        IF r[5] = "true" THEN r[2] ELSE r[2] + 1,
                        IF r[4] > r[3] THEN r[4] ELSE r[3], 1, isAboveMean>>
      \* <<currentTrendUp, currentTrendDown, maxTrendUp, maxTrendDown>> after
      \* the loop has handled index i (1-based, from 2)
      RECURSIVE TrendsTo(_)
      TrendsTo(i) ==
        IF i <= 1 THEN <<1, 1, 0, 0>>
        ELSE LET t  == TrendsTo(i - 1)
                 up == IF Gt(data[i], data[i - 1]) THEN t[1] + 1 ELSE 1
                 dn == IF ~Gt(data[i], data[i - 1]) /\ Lt(data[i], data[i - 1])
                       THEN t[2] + 1 ELSE 1
             IN  <<up, dn, IF up > t[3] THEN up ELSE t[3], IF dn > t[4] THEN dn ELSE t[4]>>
      r == RunsTo(Len(data))
      t == TrendsTo(Len(data))
  IN  IF Len(data) = 0 \/ mean = JsNull THEN NoRuns
      ELSE [runsAbove    |-> IF r[5] = "true" THEN r[1] + 1 ELSE r[1],
            runsBelow    |-> IF r[5] = "false" THEN r[2] + 1 ELSE r[2],
            maxRunLength |-> IF r[5] # "null" /\ r[4] > r[3] THEN r[4] ELSE r[3],
            maxTrendUp   |-> t[3],
            maxTrendDown |-> t[4]]

\* the filter predicate of the earlier calculateAnalysisData
IsValidRecordEarlier(d) ==
  /\ IsValidRecord(d)
  /\ d.FromSpecification # <<"o", "k">>
  /\ d.ToSpecification # <<"n", "o", "t", " ", "o", "k">>

\* stdDev and the subgroups: every chunk adds its mean, and its range or 0
DeviationEarlier(s) ==
  s @@ [stdDev      |-> calculateStdDev(s.measurements, s.mean),
        xBarValues  |->
          [k \in 1..((Len(s.measurements) + s.n - 1) \div s.n) |->
             Coalesce(calculateMean(Slice(s.measurements, (k - 1) * s.n, s.n)), Zero)],
        rangeValues |->
          [k \in 1..((Len(s.measurements) + s.n - 1) \div s.n) |->
             OrElse(SubgroupRange(Slice(s.measurements, (k - 1) * s.n, s.n)),
                    <<>>, <<Zero>>)[1]]]

\* the ratios, 0 when their sigma is 0, the distribution and the runs
RatiosEarlier(s) ==
  s @@ [cp  |-> IF ~SurdEq(s.withinStdDev, SurdOf(Zero))
                THEN DivBySurd(Sub(s.usl, s.lsl), SurdTimes(Num(6), s.withinStdDev))
                ELSE SurdOf(Zero),
        cpu |-> IF ~SurdEq(s.withinStdDev, SurdOf(Zero))
                THEN DivBySurd(Sub(s.usl, s.grandMean), SurdTimes(Num(3), s.withinStdDev))
                ELSE SurdOf(Zero),
        cpl |-> IF ~SurdEq(s.withinStdDev, SurdOf(Zero))
                THEN DivBySurd(Sub(s.grandMean, s.lsl), SurdTimes(Num(3), s.withinStdDev))
                ELSE SurdOf(Zero),
        pp  |-> IF ~SurdEq(s.stdDev, SurdOf(Zero))
                THEN DivBySurd(Sub(s.usl, s.lsl), SurdTimes(Num(6), s.stdDev))
                ELSE SurdOf(Zero),
        ppu |-> IF ~SurdEq(s.stdDev, SurdOf(Zero))
                THEN DivBySurd(Sub(s.usl, s.grandMean), SurdTimes(Num(3), s.stdDev))
                ELSE SurdOf(Zero),
        ppl |-> IF ~SurdEq(s.stdDev, SurdOf(Zero))
                THEN DivBySurd(Sub(s.grandMean, s.lsl), SurdTimes(Num(3), s.stdDev))
                ELSE SurdOf(Zero),
        distribution |->
          OrElse(calculateDistributionData(s.measurements, s.lsl, s.usl), NoDistribution,
                 [data  |-> <<>>,
                  stats |-> [min |-> Zero, max |-> Zero, mean |-> Zero,
                             target |-> Div(Add(s.usl, s.lsl), Num(2)),
                             binEdges |-> <<>>]]),
        runsAnalysis |->
          OrElse(analyzeRunsEarlier(s.xBarValues), NoRuns,
                 [runsAbove |-> 0, runsBelow |-> 0, maxRunLength |-> 0,
                  maxTrendUp |-> 0, maxTrendDown |-> 0])]

\* Cpk, Ppk and the special-cause counts
CapabilityEarlier(s) ==
  s @@ [cpk |-> SurdMin(s.cpu, s.cpl),
        ppk |-> SurdMin(s.ppu, s.ppl),
        pointsOutsideXBarLimits |->
          Cardinality({i \in 1..Len(s.xBarData) :
                         Gt(s.xBarData[i].y, s.xBarUcl) \/ Lt(s.xBarData[i].y, s.xBarLcl)}),
        pointsOutsideRangeLimits |->
          Cardinality({i \in 1..Len(s.rangeData) :
                         Gt(s.rangeData[i].y, s.rangeUcl) \/ Lt(s.rangeData[i].y, s.rangeLcl)}),
        hasEightConsecutive |-> s.runsAnalysis.maxRunLength >= 8,
        hasSixConsecutiveTrend |->
          (IF s.runsAnalysis.maxTrendUp > s.runsAnalysis.maxTrendDown
           THEN s.runsAnalysis.maxTrendUp ELSE s.runsAnalysis.maxTrendDown) >= 6]

\* the object returned: the indices are rounded whether finite or not
AnalysisObjectEarlier(s) ==
  [AnalysisObject(s) EXCEPT
     !.metrics = [@ EXCEPT !.cp  = SurdToFixed(s.cp, 2),
                           !.cpu = SurdToFixed(s.cpu, 2),
                           !.cpl = SurdToFixed(s.cpl, 2),
                           !.cpk = SurdToFixed(s.cpk, 2),
                           !.pp  = SurdToFixed(s.pp, 2),
                           !.ppu = SurdToFixed(s.ppu, 2),
                           !.ppl = SurdToFixed(s.ppl, 2),
                           !.ppk = SurdToFixed(s.ppk, 2)]]

\* the earlier calculateAnalysisData from the null test on the statistics
AnalyseStatisticsEarlier(s) ==
  IF s.mean = JsNull \/ s.stdDev = NullSurd
  THEN Throw(Message("Failed to calculate statistics", <<>>))
  ELSE Return(AnalysisObjectEarlier(Interpretation(CapabilityEarlier(RatiosEarlier(
                ControlLimits(Centres(s)))))))

\* the earlier calculateAnalysisData from the count test on the measurements
AnalyseMeasurementsEarlier(validData, measurements, n) ==
  IF Len(measurements) < n
  THEN Throw(Message("Insufficient valid data for analysis", <<>>))
  ELSE AnalyseStatisticsEarlier(DeviationEarlier(Statistics(
         measurements,
         parseFloat(validData[1].FromSpecification),
         parseFloat(validData[1].ToSpecification), n)))

AnalyseValidEarlier(validData, n) ==
  AnalyseMeasurementsEarlier(validData, MapSeq(ActualOf, validData), n)

calculateAnalysisDataEarlier(data, n) ==
  IF n \notin DOMAIN controlChartConstants \/ n < 1 \/ n > 5
  THEN Throw(Message("Sample size must be between 1 and 5", <<>>))
  ELSE AnalyseValidEarlier(SelectSeq(data, IsValidRecordEarlier), n)

----------------------------------------------------------------------------
(* src/src/app/dashboard/page.tsx: handleAnalyze *)

\* an error as shown: the parts of its message, in order
NoError == <<>>

\* inspectionData.filter((data) => formData.selectedShifts.includes(data.ShiftCode))
FilterByShift(data, shifts) ==
  LET InShift(d) == d.ShiftCode \in shifts IN SelectSeq(data, InShift)

\* handleAnalyze from the tests on filteredData on
AnalyzeFiltered(filteredData, n) ==
  IF Len(filteredData) = 0
  THEN Throw(Message("No data found for the selected criteria", <<>>))
  ELSE IF Len(filteredData) < n
  THEN Throw(Message("Insufficient data: {0} measurements found, but {1} required",
                     <<Len(filteredData), n>>))
  ELSE calculateAnalysisData(filteredData, n)

\* the try block of handleAnalyze once the response is in: what it throws or
\* hands to setAnalysisData
HandleAnalyzeBody(ok, data, shifts, n) ==
  IF ~ok THEN Throw(Message("Failed to fetch inspection data", <<>>))
  ELSE AnalyzeFiltered(FilterByShift(data, shifts), n)

----------------------------------------------------------------------------
(* src/src/lib/spcAnalysis.ts: the individuals-chart variant analyzeData *)

\* the mean and the sample standard deviation (divisor length - 1) the
\* variant computes inline
MeanLib(measurements) == Div(Sum(measurements), Num(Len(measurements)))

StdDevLib(measurements, mean) ==
  MathSqrt(Div(Sum(SquaredDiffs(measurements, mean)), Num(Len(measurements) - 1)))

\* calculateDistributionData once the bin width and the first edge are fixed
DistributionOverLib(measurements, lsl, usl, processMax, binCount, binWidth, binStart, mean) ==
  [data  |-> HistData(FillBins(measurements, processMax, binStart, binWidth, binCount),
                      binStart, binWidth),
   stats |-> [mean   |-> mean,
              stdDev |-> StdDevLib(measurements, mean),
              target |-> Div(Add(usl, lsl), Num(2))],
   numberOfBins |-> binCount]

\* calculateDistributionData once the extremes and binCount are fixed
DistributionBetweenLib(measurements, lsl, usl, processMin, processMax, binCount) ==
  DistributionOverLib(measurements, lsl, usl, processMax, binCount,
                      Div(Sub(processMax, processMin), Num(binCount)),
                      MathMin2(processMin, lsl), MeanLib(measurements))

calculateDistributionDataLib(measurements, lsl, usl) ==
  DistributionBetweenLib(measurements, lsl, usl, MathMin(measurements),
                         MathMax(measurements), CeilSqrt(Len(measurements)))

\* the filter predicate of analyzeData
IsValidRecordLib(d) ==
  /\ ~isNaN(parseFloat(d.ActualSpecification))
  /\ ~isNaN(parseFloat(d.FromSpecification))
  /\ ~isNaN(parseFloat(d.ToSpecification))

\* The locals of analyzeData after the limits are checked, gathered in a
\* record as for calculateAnalysisData.

\* target, mean and the chart points
StatisticsLib(measurements, lsl, usl) ==
  [measurements |-> measurements,
   lsl          |-> lsl,
   usl          |-> usl,
   target       |-> Div(Add(lsl, usl), Num(2)),
   mean         |-> MeanLib(measurements),
   xBarData     |-> [i \in 1..Len(measurements) |-> [x |-> i, y |-> measurements[i]]],
   rangeData    |-> [i \in 1..(Len(measurements) - 1) |->
                       [x |-> i, y |-> Abs(Sub(measurements[i + 1], measurements[i]))]]]

\* stdDev and the average moving range
DeviationLib(s) ==
  s @@ [stdDev   |-> StdDevLib(s.measurements, s.mean),
        avgRange |-> Div(Sum([i \in 1..Len(s.rangeData) |-> s.rangeData[i].y]),
                         Num(Len(s.rangeData)))]

\* the control limits and the clamped sigma
ControlLimitsLib(s) ==
  s @@ [xBarUcl  |-> Add(s.mean, Mul(Dec(266, 2), s.avgRange)),
        xBarLcl  |-> Sub(s.mean, Mul(Dec(266, 2), s.avgRange)),
        rangeUcl |-> Mul(Dec(3267, 3), s.avgRange),
        rangeLcl |-> Zero,
        safeStdDev |->
          IF SurdEq(s.stdDev, SurdOf(Zero)) THEN SurdOf(SigmaEpsilon) ELSE s.stdDev]

\* the ratios and the distribution
RatiosLib(s) ==
  s @@ [cp  |-> DivBySurd(Sub(s.usl, s.lsl), SurdTimes(Num(6), s.safeStdDev)),
        cpu |-> DivBySurd(Sub(s.usl, s.mean), SurdTimes(Num(3), s.safeStdDev)),
        cpl |-> DivBySurd(Sub(s.mean, s.lsl), SurdTimes(Num(3), s.safeStdDev)),
        pp  |-> DivBySurd(Sub(s.usl, s.lsl), SurdTimes(Num(6), s.safeStdDev)),
        ppu |-> DivBySurd(Sub(s.usl, s.mean), SurdTimes(Num(3), s.safeStdDev)),
        ppl |-> DivBySurd(Sub(s.mean, s.lsl), SurdTimes(Num(3), s.safeStdDev)),
        distribution |-> calculateDistributionDataLib(s.measurements, s.lsl, s.usl)]

CapabilityLib(s) ==
  s @@ [cpk |-> SurdMin(s.cpu, s.cpl),
        ppk |-> SurdMin(s.ppu, s.ppl)]

\* the analysis object
AnalysisObjectLib(s) ==
  [metrics |->
     [xBar          |-> ToFixed(s.mean, 4),
      stdDevOverall |-> SurdToFixed(s.stdDev, 4),
      stdDevWithin  |-> SurdToFixed(s.stdDev, 4),
      movingRange   |-> ToFixed(s.avgRange, 4),
      cp       |-> SurdToFixed(s.cp, 2),
      cpkUpper |-> SurdToFixed(s.cpu, 2),
      cpkLower |-> SurdToFixed(s.cpl, 2),
      cpk      |-> SurdToFixed(s.cpk, 2),
      pp       |-> SurdToFixed(s.pp, 2),
      ppu      |-> SurdToFixed(s.ppu, 2),
      ppl      |-> SurdToFixed(s.ppl, 2),
      ppk      |-> SurdToFixed(s.ppk, 2),
      lsl |-> s.lsl,
      usl |-> s.usl],
   controlCharts |->
     [xBarData  |-> s.xBarData,
      rangeData |-> s.rangeData,
      limits |->
        [xBarUcl   |-> ToFixed(s.xBarUcl, 4),
         xBarLcl   |-> ToFixed(s.xBarLcl, 4),
         xBarMean  |-> ToFixed(s.mean, 4),
         rangeUcl  |-> ToFixed(s.rangeUcl, 4),
         rangeLcl  |-> ToFixed(s.rangeLcl, 4),
         rangeMean |-> ToFixed(s.avgRange, 4)]],
   distribution |->
     [data  |-> s.distribution.data,
      stats |-> [mean   |-> ToFixed(s.mean, 4),
                 stdDev |-> SurdToFixed(s.stdDev, 4),
                 target |-> ToFixed(s.target, 4)],
      numberOfBins |-> s.distribution.numberOfBins],
   ssAnalysis |->
     [processShift  |->
        IF SurdLt(s.cpk, SurdTimes(Dec(75, 2), s.cp)) THEN "Yes" ELSE "No",
      processSpread |-> IF SurdLt(s.cp, SurdOf(Num(1))) THEN "Yes" ELSE "No",
      specialCause  |->
        IF SurdGe(s.pp, s.cp) THEN "Special Cause Detection impossible"
        ELSE IF SurdLt(s.pp, SurdTimes(Dec(75, 2), s.cp)) THEN "Yes" ELSE "No"],
   processInterpretation |->
     [shortTermCapability |->
        IF SurdGe(s.cp, SurdOf(Dec(133, 2)))
        THEN "Process meets spec" ELSE "Process needs improvement",
      \* Math.abs(cpu - cpl) < 0.2, both over the same sigma
      shortTermCentered |->
        IF SurdLt(DivBySurd(Abs(Sub(Sub(s.usl, s.mean), Sub(s.mean, s.lsl))),
                            SurdTimes(Num(3), s.safeStdDev)),
                  SurdOf(Dec(2, 1)))
        THEN "Centered" ELSE "Not centered",
      longTermPerformance |-> DecisionRemarkOf(s.cpk),
      longTermCentered |->
        IF Lt(Abs(Sub(s.mean, s.target)), Mul(Dec(1, 1), Sub(s.usl, s.lsl)))
        THEN "Centered" ELSE "Not centered"]]

\* analyzeData from the test of the limits on
AnalyzeWithLimits(measurements, lsl, usl) ==
  IF Ge(lsl, usl)
  THEN Throw(Message("Invalid specification limits: LSL must be less than USL", <<>>))
  ELSE Return(AnalysisObjectLib(CapabilityLib(RatiosLib(ControlLimitsLib(
                DeviationLib(StatisticsLib(measurements, lsl, usl)))))))

\* analyzeData once the records are filtered
AnalyzeValid(validData) ==
  IF Len(validData) = 0
  THEN Throw(Message("No valid measurements found in the data", <<>>))
  ELSE AnalyzeWithLimits(MapSeq(ActualOf, validData),
                         parseFloat(validData[1].FromSpecification),
                         parseFloat(validData[1].ToSpecification))

\* the try block of analyzeData once the response is in
AnalyzeDataBody(ok, data) ==
  IF ~ok THEN Throw(Message("Failed to fetch inspection data", <<>>))
  ELSE IF Len(data) = 0 THEN Throw(Message("No inspection data available", <<>>))
  ELSE AnalyzeValid(SelectSeq(data, IsValidRecordLib))

----------------------------------------------------------------------------
(* src/unnamed/part_000: SPCAnalysisPage, the stand-alone analysis page.    *)
(* Its handleAnalyze charts individual values and computes the analysis     *)
(* inline: the records are not filtered for validity, the one sigma is the  *)
(* sample standard deviation and no divisor is clamped.  Its locals are     *)
(* gathered in a record as for calculateAnalysisData.                       *)

\* calculateDistributionData once numberOfBins, min and binWidth are fixed.
\* binCounts[binIndex]++ counts in a bin only when binIndex is one of
\* 0 .. numberOfBins - 1; on NaN it leaves every bin as it is.
DistributionOverPage(specifications, numberOfBins, min, binWidth) ==
  [data |->
     [i \in 1..numberOfBins |->
        [x |-> Add(Add(min, Mul(Num(i - 1), binWidth)), Div(binWidth, Num(2))),
         y |-> Cardinality(
                 {k \in 1..Len(specifications) :
                    MathMin2(Floor(Div(Sub(specifications[k], min), binWidth)),
                             Num(numberOfBins - 1)) = Num(i - 1)})]],
   numberOfBins |-> numberOfBins]

calculateDistributionDataPage(specifications) ==
  DistributionOverPage(specifications, CeilSqrt(Len(specifications)),
                       MathMin(specifications),
                       Div(Sub(MathMax(specifications), MathMin(specifications)),
                           Num(CeilSqrt(Len(specifications)))))

\* specifications, the limits of the first record, mean and the chart points
StatisticsPage(specifications, usl, lsl) ==
  [specifications |-> specifications,
   usl       |-> usl,
   lsl       |-> lsl,
   mean      |-> Div(Sum(specifications), Num(Len(specifications))),
   xBarData  |-> [i \in 1..Len(specifications) |-> [x |-> i, y |-> specifications[i]]],
   rangeData |-> [i \in 1..(Len(specifications) - 1) |->
                    [x |-> i, y |-> Abs(Sub(specifications[i + 1], specifications[i]))]]]

\* stdDev, with the divisor length - 1, and rangeMean
DeviationPage(s) ==
  s @@ [stdDev    |-> MathSqrt(Div(Sum(SquaredDiffs(s.specifications, s.mean)),
                                   Num(Len(s.specifications) - 1))),
        rangeMean |-> Div(Sum(MapSeq(LAMBDA p : p.y, s.rangeData)),
                          Num(Len(s.rangeData)))]

\* the control limits, the ratios and the distribution
RatiosPage(s) ==
  s @@ [xBarUcl  |-> Add(s.mean, Mul(Dec(266, 2), s.rangeMean)),
        xBarLcl  |-> Sub(s.mean, Mul(Dec(266, 2), s.rangeMean)),
        rangeUcl |-> Mul(Dec(3267, 3), s.rangeMean),
        rangeLcl |-> Zero,
        cp  |-> DivBySurd(Sub(s.usl, s.lsl), SurdTimes(Num(6), s.stdDev)),
        cpu |-> DivBySurd(Sub(s.usl, s.mean), SurdTimes(Num(3), s.stdDev)),
        cpl |-> DivBySurd(Sub(s.mean, s.lsl), SurdTimes(Num(3), s.stdDev)),
        distributionData |-> calculateDistributionDataPage(s.specifications)]

\* Cpk and the special-cause test
CapabilityPage(s) ==
  s @@ [cpk |-> SurdMin(s.cpu, s.cpl),
        hasSpecialCause |->
          \E i \in DOMAIN s.xBarData :
            Gt(s.xBarData[i].y, s.xBarUcl) \/ Lt(s.xBarData[i].y, s.xBarLcl)]

\* the analysis object
AnalysisObjectPage(s) ==
  [metrics |->
     [xBar          |-> ToFixed(s.mean, 4),
      stdDevOverall |-> SurdToFixed(s.stdDev, 4),
      stdDevWithin  |-> SurdToFixed(s.stdDev, 4),
      movingRange   |-> ToFixed(s.rangeMean, 4),
      cp       |-> SurdToFixed(s.cp, 2),
      cpkUpper |-> SurdToFixed(s.cpu, 2),
      cpkLower |-> SurdToFixed(s.cpl, 2),
      cpk      |-> SurdToFixed(s.cpk, 2),
      pp       |-> SurdToFixed(s.cp, 2),
      ppu      |-> SurdToFixed(s.cpu, 2),
      ppl      |-> SurdToFixed(s.cpl, 2),
      ppk      |-> SurdToFixed(s.cpk, 2),
      lsl |-> ToFixed(s.lsl, 4),
      usl |-> ToFixed(s.usl, 4)],
   controlCharts |->
     [xBarData  |-> s.xBarData,
      rangeData |-> s.rangeData,
      limits |->
        [xBarUcl   |-> ToFixed(s.xBarUcl, 4),
         xBarLcl   |-> ToFixed(s.xBarLcl, 4),
         xBarMean  |-> ToFixed(s.mean, 4),
         rangeUcl  |-> ToFixed(s.rangeUcl, 4),
         rangeLcl  |-> ToFixed(s.rangeLcl, 4),
         rangeMean |-> ToFixed(s.rangeMean, 4)]],
   distribution |->
     [data  |-> s.distributionData.data,
      stats |-> [mean   |-> ToFixed(s.mean, 4),
                 stdDev |-> SurdToFixed(s.stdDev, 4),
                 target |-> ToFixed(Div(Add(s.usl, s.lsl), Num(2)), 4)],
      numberOfBins |-> s.distributionData.numberOfBins],
   ssAnalysis |->
     [processShift  |-> IF s.hasSpecialCause THEN "Yes" ELSE "No",
      processSpread |->
        IF \E i \in DOMAIN s.rangeData : Gt(s.rangeData[i].y, s.rangeUcl)
        THEN "Yes" ELSE "No",
      specialCause  |->
        IF s.hasSpecialCause THEN "Special Cause Detected" ELSE "No Special Cause"],
   processInterpretation |->
     [shortTermCapability |->
        IF SurdGe(s.cp, SurdOf(Dec(133, 2))) THEN "Process is highly capable"
        ELSE IF SurdGe(s.cp, SurdOf(Num(1))) THEN "Process is capable"
        ELSE "Process is not capable",
      \* Math.abs(cpu - cpl) < 0.2, both over the same sigma
      shortTermCentered |->
        IF SurdLt(DivBySurd(Abs(Sub(Sub(s.usl, s.mean), Sub(s.mean, s.lsl))),
                            SurdTimes(Num(3), s.stdDev)),
                  SurdOf(Dec(2, 1)))
        THEN "Process is well centered" ELSE "Process is not well centered",
      longTermPerformance |->
        IF SurdGe(s.cpk, SurdOf(Dec(133, 2))) THEN "Process performance is excellent"
        ELSE IF SurdGe(s.cpk, SurdOf(Num(1))) THEN "Process performance is acceptable"
        ELSE "Process performance needs improvement",
      longTermCentered |->
        IF Lt(Abs(Sub(s.mean, Div(Add(s.usl, s.lsl), Num(2)))),
              Mul(Dec(1, 1), Sub(s.usl, s.lsl)))
        THEN "Process is centered long-term" ELSE "Process is not centered long-term"]]

\* handleAnalyze once the response is in: the error it shows, or the
\* analysis it hands to setAnalysisData.  A fetch that fails lands in catch.
HandleAnalyzePageBody(ok, filteredData) ==
  IF ~ok THEN Throw(Message("Error analyzing data", <<>>))
  ELSE IF Len(filteredData) = 0
  THEN Throw(Message("No data found for the selected criteria", <<>>))
  ELSE Return(AnalysisObjectPage(CapabilityPage(RatiosPage(DeviationPage(
         StatisticsPage(MapSeq(ActualOf, filteredData),
                        parseFloat(filteredData[1].ToSpecification),
                        parseFloat(filteredData[1].FromSpecification)))))))

----------------------------------------------------------------------------
(* src/src/components/spc/SPCPattern.tsx: the pattern detectors.  A         *)
(* PatternResult without pointIndices is a record without that field.       *)

NoPatterns == [none |-> TRUE]

\* the x of the points first .. first + count - 1
PointIndices(xBarData, first, count) ==
  [idx \in 1..count |-> xBarData[first + idx - 1].x]

\* detectOutOfControlPoints with a point on a limit counted as outside it
detectOutOfControlPoints_Inclusive(chartData_) ==
  LET outOfControlPoints ==
        SelectSeq(chartData_.xBarData,
                  LAMBDA point : \/ Ge(point.y, chartData_.limits.xBarUcl)
                                 \/ Le(point.y, chartData_.limits.xBarLcl))
  IN  [detected     |-> Len(outOfControlPoints) > 0,
       description  |-> Message("{0} points are outside control limits",
                                <<Len(outOfControlPoints)>>),
       pointIndices |-> MapSeq(LAMBDA point : point.x, outOfControlPoints)]

detectOutOfControlPoints(chartData_) ==
  LET outOfControlPoints ==
        SelectSeq(chartData_.xBarData,
                  LAMBDA point : \/ Gt(point.y, chartData_.limits.xBarUcl)
                                 \/ Lt(point.y, chartData_.limits.xBarLcl))
  IN  [detected     |-> Len(outOfControlPoints) > 0,
       description  |-> Message("{0} points are outside control limits",
                                <<Len(outOfControlPoints)>>),
       pointIndices |-> MapSeq(LAMBDA point : point.x, outOfControlPoints)]

\* detectTrends with equal neighbours continuing a run (< for <=, > for >=)
detectTrends_NonStrict(chartData_) ==
  LET xBarData == chartData_.xBarData
      trendLength == 7
      increasing(i) ==
        \A j \in 1..(trendLength - 1) : ~Lt(xBarData[i + j].y, xBarData[i + j - 1].y)
      decreasing(i) ==
        \A j \in 1..(trendLength - 1) : ~Gt(xBarData[i + j].y, xBarData[i + j - 1].y)
      found == {i \in 1..(Len(xBarData) - trendLength + 1) : increasing(i) \/ decreasing(i)}
  IN  IF found = {}
      THEN [detected |-> FALSE, description |-> Message("No trend detected", <<>>)]
      ELSE LET i == CHOOSE k \in found : \A m \in found : k <= m
           IN  [detected     |-> TRUE,
                description  |->
                  IF increasing(i)
                  THEN Message("{0} or more consecutive points increasing", <<trendLength>>)
                  ELSE Message("{0} or more consecutive points decreasing", <<trendLength>>),
                pointIndices |-> PointIndices(xBarData, i, trendLength)]

detectTrends(chartData_) ==
  LET xBarData == chartData_.xBarData
      trendLength == 7
      increasing(i) ==
        \A j \in 1..(trendLength - 1) : ~Le(xBarData[i + j].y, xBarData[i + j - 1].y)
      decreasing(i) ==
        \A j \in 1..(trendLength - 1) : ~Ge(xBarData[i + j].y, xBarData[i + j - 1].y)
      found == {i \in 1..(Len(xBarData) - trendLength + 1) : increasing(i) \/ decreasing(i)}
  IN  IF found = {}
      THEN [detected |-> FALSE, description |-> Message("No trend detected", <<>>)]
      ELSE \* the loop returns at the first window found
           LET i == CHOOSE k \in found : \A m \in found : k <= m
           IN  [detected     |-> TRUE,
                description  |->
                  IF increasing(i)
                  THEN Message("{0} or more consecutive points increasing", <<trendLength>>)
                  ELSE Message("{0} or more consecutive points decreasing", <<trendLength>>),
                pointIndices |-> PointIndices(xBarData, i, trendLength)]

\* detectShifts with a point on the centre line continuing a run
detectShifts_NonStrict(chartData_) ==
  LET xBarData == chartData_.xBarData
      shiftLength == 8
      mean == chartData_.limits.xBarMean
      allAbove(i) == \A j \in 0..(shiftLength - 1) : ~Lt(xBarData[i + j].y, mean)
      allBelow(i) == \A j \in 0..(shiftLength - 1) : ~Gt(xBarData[i + j].y, mean)
      found == {i \in 1..(Len(xBarData) - shiftLength + 1) : allAbove(i) \/ allBelow(i)}
  IN  IF found = {}
      THEN [detected |-> FALSE, description |-> Message("No shift detected", <<>>)]
      ELSE LET i == CHOOSE k \in found : \A m \in found : k <= m
           IN  [detected     |-> TRUE,
                description  |->
                  IF allAbove(i)
                  THEN Message("{0} consecutive points above center line", <<shiftLength>>)
                  ELSE Message("{0} consecutive points below center line", <<shiftLength>>),
                pointIndices |-> PointIndices(xBarData, i, shiftLength)]

detectShifts(chartData_) ==
  LET xBarData == chartData_.xBarData
      shiftLength == 8
      mean == chartData_.limits.xBarMean
      allAbove(i) == \A j \in 0..(shiftLength - 1) : ~Le(xBarData[i + j].y, mean)
      allBelow(i) == \A j \in 0..(shiftLength - 1) : ~Ge(xBarData[i + j].y, mean)
      found == {i \in 1..(Len(xBarData) - shiftLength + 1) : allAbove(i) \/ allBelow(i)}
  IN  IF found = {}
      THEN [detected |-> FALSE, description |-> Message("No shift detected", <<>>)]
      ELSE LET i == CHOOSE k \in found : \A m \in found : k <= m
           IN  [detected     |-> TRUE,
                description  |->
                  IF allAbove(i)
                  THEN Message("{0} consecutive points above center line", <<shiftLength>>)
                  ELSE Message("{0} consecutive points below center line", <<shiftLength>>),
                pointIndices |-> PointIndices(xBarData, i, shiftLength)]

\* the loop of detectOscillation after the step into point i (1-based, from
\* 2): <<alternations, previousDirection, the point at which it returned or 0>>
detectOscillation(chartData_) ==
  LET xBarData == chartData_.xBarData
      requiredAlternations == 14
      RECURSIVE After(_)
      After(i) ==
        IF i <= 1 THEN <<0, "null", 0>>
        ELSE LET before == After(i - 1)
                 currentDirection ==
                   IF Gt(xBarData[i].y, xBarData[i - 1].y) THEN "up" ELSE "down"
             IN  IF before[3] # 0 THEN before
                 ELSE IF before[2] # "null" /\ currentDirection # before[2]
                 THEN <<before[1] + 1, currentDirection,
                        IF before[1] + 1 >= requiredAlternations THEN i ELSE 0>>
                 ELSE <<0, currentDirection, 0>>
      last == After(Len(xBarData))
  IN  IF last[3] = 0
      THEN [detected |-> FALSE,
            description |-> Message("No oscillation pattern detected", <<>>)]
      ELSE [detected     |-> TRUE,
            description  |->
              Message("Systematic alternating pattern detected (14+ alternations)", <<>>),
            pointIndices |->
              PointIndices(xBarData, last[3] - requiredAlternations,
                           requiredAlternations + 1)]

detectClustering(chartData_) ==
  IF Len(chartData_.xBarData) = 0 \/ Len(chartData_.rangeData) = 0
  THEN [detected |-> FALSE,
        description |-> Message("No data available for clustering analysis", <<>>)]
  ELSE [detected |-> FALSE,
        description |-> Message("No unusual clustering detected", <<>>)]

\* detectStratification with a point at exactly the threshold from the
\* centre line taken as beyond it (>= for >)
detectStratification_Strict(chartData_) ==
  LET xBarData == chartData_.xBarData
      requiredPoints == 15
      threshold == Div(Sub(chartData_.limits.xBarUcl, chartData_.limits.xBarLcl), Num(6))
      mean == chartData_.limits.xBarMean
      allWithinThreshold(i) ==
        \A j \in 0..(requiredPoints - 1) :
          ~Ge(Abs(Sub(xBarData[i + j].y, mean)), threshold)
      found == {i \in 1..(Len(xBarData) - requiredPoints + 1) : allWithinThreshold(i)}
  IN  IF found = {}
      THEN [detected |-> FALSE, description |-> Message("No stratification detected", <<>>)]
      ELSE LET i == CHOOSE k \in found : \A m \in found : k <= m
           IN  [detected     |-> TRUE,
                description  |->
                  Message("{0} consecutive points unnaturally close to center line",
                          <<requiredPoints>>),
                pointIndices |-> PointIndices(xBarData, i, requiredPoints)]

detectStratification(chartData_) ==
  LET xBarData == chartData_.xBarData
      requiredPoints == 15
      threshold == Div(Sub(chartData_.limits.xBarUcl, chartData_.limits.xBarLcl), Num(6))
      mean == chartData_.limits.xBarMean
      allWithinThreshold(i) ==
        \A j \in 0..(requiredPoints - 1) :
          ~Gt(Abs(Sub(xBarData[i + j].y, mean)), threshold)
      found == {i \in 1..(Len(xBarData) - requiredPoints + 1) : allWithinThreshold(i)}
  IN  IF found = {}
      THEN [detected |-> FALSE, description |-> Message("No stratification detected", <<>>)]
      ELSE LET i == CHOOSE k \in found : \A m \in found : k <= m
           IN  [detected     |-> TRUE,
                description  |->
                  Message("{0} consecutive points unnaturally close to center line",
                          <<requiredPoints>>),
                pointIndices |-> PointIndices(xBarData, i, requiredPoints)]

----------------------------------------------------------------------------
(* Requests.  One request is drawn in the initial state: the records the    *)
(* data service holds for it, the shifts ticked on the form and the         *)
(* subgroup size.  Each entry point then runs once on it.                    *)

MaxShort == 3

MaxLong == 5

MaxMixed == 3

ShortValues == {1, 2, 4}

LongValues == {1, 2}

SampleSizes == 1..5

IntText(k) == <<DigitChars[k + 1]>>

Rec(shift, a, f, t) ==
  [ShiftCode |-> shift, ActualSpecification |-> a,
   FromSpecification |-> f, ToSpecification |-> t]

SeqsUpTo(S, n) == UNION {[1..k -> S] : k \in 0..n}

\* the limit pairs a batch may carry: inside, touching and below the data,
\* equal, inverted, and an upper limit the service sends as "Infinity"
LimitTexts ==
  {<<IntText(0), IntText(5)>>, <<IntText(1), IntText(4)>>, <<IntText(3), IntText(3)>>,
   <<IntText(5), IntText(0)>>, <<IntText(0), InfinityText>>}

\* batches of well-formed records of one shift sharing their limits
BatchRequests ==
  {[i \in 1..Len(vs) |-> Rec("1", IntText(vs[i]), lim[1], lim[2])] :
     vs \in SeqsUpTo(ShortValues, MaxShort) \cup SeqsUpTo(LongValues, MaxLong),
     lim \in LimitTexts}

\* records as the service may send them: well-formed, a number followed by
\* text, missing or non-numeric fields, "Infinity", a record of another shift
MixedRecords ==
  {Rec("1", IntText(1), IntText(0), IntText(5)),
   Rec("1", <<"2", "x">>, IntText(0), IntText(5)),
   Rec("1", <<"a", "b", "c">>, IntText(0), IntText(5)),
   Rec("1", IntText(4), Null, IntText(5)),
   Rec("1", IntText(2), IntText(0), InfinityText),
   Rec("2", IntText(4), IntText(0), IntText(5))}

MixedRequests == SeqsUpTo(MixedRecords, MaxMixed)

\* the end-to-end sample: ten readings against the limits 10.0 / 10.5
EndToEndActuals ==
  <<<<"1", "0", ".", "0", "1", "3">>, <<"1", "0", ".", "0", "1", "4">>,
    <<"1", "0", ".", "0", "1", "5">>, <<"1", "0", ".", "0", "1", "6">>,
    <<"1", "0", ".", "0", "1", "7">>, <<"1", "0", ".", "0", "2", "4">>,
    <<"1", "0", ".", "0", "2", "6">>, <<"1", "0", ".", "0", "2", "5">>,
    <<"1", "0", ".", "0", "2", "5">>, <<"1", "0", ".", "0", "2", "2">>>>

EndToEndRequest ==
  [i \in 1..Len(EndToEndActuals) |->
     Rec("1", EndToEndActuals[i], <<"1", "0", ".", "0">>, <<"1", "0", ".", "5">>)]

\* ten readings alternating 1, 2 with a reading of 5 at positions p and q:
\* eight readings in a row lie below their mean only when the two 5s are
\* together at an end or one at each end
RunActuals(p, q) ==
  [i \in 1..Len(EndToEndActuals) |->
     IF i \in {p, q} THEN 5 ELSE IF i % 2 = 1 THEN 1 ELSE 2]

RunRequests ==
  {[i \in 1..Len(EndToEndActuals) |->
      Rec("1", IntText(RunActuals(p, q)[i]), IntText(0), IntText(5))] :
     p \in 1..Len(EndToEndActuals), q \in 1..Len(EndToEndActuals)}

\* two readings whose Cpk, for subgroup size 1, is 5/3: just under 1.67
RoundingRequest ==
  <<Rec("1", IntText(4), IntText(2), IntText(7)),
    Rec("1", IntText(5), IntText(2), IntText(7))>>

\* twelve readings: for subgroup size 5 the chunks have 5, 5 and 2 members
TwelveRequest ==
  [i \in 1..12 |-> Rec("1", IntText((i * i) % 7), IntText(0), IntText(5))]

\* two readings whose limits the service sends as "Infinity" both: their
\* difference is NaN
UnboundedRequest ==
  <<Rec("1", IntText(1), InfinityText, InfinityText),
    Rec("1", IntText(2), InfinityText, InfinityText)>>

\* ten readings with mean 2: seven readings of 1 and one of 2, the mean itself,
\* followed by 5 and 6
LevelRunActuals == <<1, 1, 1, 2, 1, 1, 1, 1, 5, 6>>

LevelRunRequest ==
  [i \in 1..Len(LevelRunActuals) |->
     Rec("1", IntText(LevelRunActuals[i]), IntText(0), IntText(7))]

Requests ==
  BatchRequests \cup MixedRequests
    \cup {EndToEndRequest, RoundingRequest, TwelveRequest, UnboundedRequest,
          LevelRunRequest}
    \cup RunRequests

\* Charts.  The mean series handed to the pattern detectors: walks of up to
\* MaxPoints points that start at 0 and step by -1, 0 or 1, each against the
\* centre lines -1, 0 and 1 with control limits 3 either side; the two
\* series of the worked examples; and the long series below.
MaxPoints == 8

\* the series that starts at 0 and takes the steps given
Walk(steps) ==
  LET RECURSIVE At(_)
      At(i) == IF i = 1 THEN 0 ELSE At(i - 1) + steps[i - 1]
  IN  [i \in 1..(Len(steps) + 1) |-> At(i)]

\* the chart props of a mean series ys and a centre line
ChartOf(ys, centre) ==
  [xBarData  |-> [i \in 1..Len(ys) |-> [x |-> i, y |-> Num(ys[i])]],
   rangeData |-> [i \in 1..(Len(ys) - 1) |-> [x |-> i, y |-> Num(AbsInt(ys[i + 1] - ys[i]))]],
   limits    |-> [xBarUcl |-> Num(centre + 3), xBarLcl |-> Num(centre - 3),
                  xBarMean |-> Num(centre),
                  rangeUcl |-> Num(3), rangeLcl |-> Zero, rangeMean |-> Num(1)]]

NoChart == ChartOf(<<>>, 0)

RisingChart == ChartOf(<<1, 2, 3, 4, 5, 6, 7>>, 4)

FivesChart == ChartOf(<<5, 5, 5, 5, 5, 5, 5, 5>>, 10)

\* Long series, for the findings that need fifteen points or more: the
\* series of len points that starts at 0 and steps alternately by a and by
\* b, its p-th step (when it has one) being c instead.  They are charted
\* against the centre lines 0 and 2, and reach MaxZigzag points.
MaxZigzag == 17

Zigzag(a, b, p, c, len) ==
  Walk([i \in 1..(len - 1) |-> IF i = p THEN c ELSE IF i % 2 = 1 THEN a ELSE b])

Charts ==
  {ChartOf(Walk(steps), centre) :
     steps \in SeqsUpTo({-1, 0, 1}, MaxPoints - 1), centre \in {-1, 0, 1}}
    \cup {NoChart, RisingChart, FivesChart}
    \cup {ChartOf(Zigzag(a, b, p, c, len), centre) :
            a \in {-1, 0, 1}, b \in {-1, 0, 1}, c \in {-1, 0, 1},
            p \in 0..(MaxZigzag - 1), len \in (MaxZigzag - 2)..MaxZigzag,
            centre \in {0, 2}}

Init ==
  /\ chartData = NoChart
  /\ patterns = NoPatterns
  /\ inspectionData \in Requests
  /\ selectedShifts = {"1"}
  /\ sampleSize \in SampleSizes
  /\ pc = "ready"
  /\ entry = "none"
  /\ loading = FALSE
  /\ result = NoResult
  /\ error = NoError

\* calculateAnalysisData called directly on the records
CalculateAnalysisData ==
  /\ pc = "ready"
  /\ \E out \in {calculateAnalysisData(inspectionData, sampleSize)} :
       /\ result' = out.value
       /\ error' = IF out.threw THEN <<out.message>> ELSE NoError
  /\ pc' = "done"
  /\ entry' = "calculateAnalysisData"
  /\ UNCHANGED <<inspectionData, selectedShifts, sampleSize, loading, chartData, patterns>>

\* the earlier calculateAnalysisData called on the records
CalculateAnalysisDataEarlier ==
  /\ pc = "ready"
  /\ \E out \in {calculateAnalysisDataEarlier(inspectionData, sampleSize)} :
       /\ result' = out.value
       /\ error' = IF out.threw THEN <<out.message>> ELSE NoError
  /\ pc' = "done"
  /\ entry' = "calculateAnalysisDataEarlier"
  /\ UNCHANGED <<inspectionData, selectedShifts, sampleSize, loading, chartData, patterns>>

\* handleAnalyze up to its await: the flags are reset and the request is sent
HandleAnalyzeStart ==
  /\ pc = "ready"
  /\ loading' = TRUE
  /\ error' = NoError
  /\ result' = NoResult
  /\ pc' = "fetching"
  /\ entry' = "handleAnalyze"
  /\ UNCHANGED <<inspectionData, selectedShifts, sampleSize, chartData, patterns>>

\* handleAnalyze from the response on: try, catch and finally
HandleAnalyzeResponse ==
  /\ pc = "fetching"
  /\ entry = "handleAnalyze"
  /\ \E ok \in BOOLEAN :
       \E out \in {HandleAnalyzeBody(ok, inspectionData, selectedShifts, sampleSize)} :
         /\ result' = out.value
         /\ error' = IF out.threw
                     THEN <<Message("Error analyzing data: ", <<>>), out.message>>
                     ELSE NoError
  /\ loading' = FALSE
  /\ pc' = "done"
  /\ UNCHANGED <<inspectionData, selectedShifts, sampleSize, entry, chartData, patterns>>

\* analyzeData: the analysis, or null with the error logged.  Its parameters
\* carry no subgroup size (it charts individual values), so it is run on the
\* requests whose subgroup size is 1.
AnalyzeData ==
  /\ pc = "ready"
  /\ sampleSize = 1
  /\ \E ok \in BOOLEAN :
       \E out \in {AnalyzeDataBody(ok, inspectionData)} :
         /\ result' = out.value
         /\ error' = IF out.threw THEN <<out.message>> ELSE NoError
  /\ pc' = "done"
  /\ entry' = "analyzeData"
  /\ UNCHANGED <<inspectionData, selectedShifts, sampleSize, loading, chartData, patterns>>

\* handleAnalyze of SPCAnalysisPage up to its await.  The page has no
\* subgroup size (it charts individual values), so it is run on the requests
\* whose subgroup size is 1.
HandleAnalyzePageStart ==
  /\ pc = "ready"
  /\ sampleSize = 1
  /\ loading' = TRUE
  /\ error' = NoError
  /\ result' = NoResult
  /\ pc' = "fetching"
  /\ entry' = "SPCAnalysisPage"
  /\ UNCHANGED <<inspectionData, selectedShifts, sampleSize, chartData, patterns>>

\* handleAnalyze of SPCAnalysisPage from the response on
HandleAnalyzePageResponse ==
  /\ pc = "fetching"
  /\ entry = "SPCAnalysisPage"
  /\ \E ok \in BOOLEAN :
       \E out \in {HandleAnalyzePageBody(ok, FilterByShift(inspectionData, selectedShifts))} :
         /\ result' = out.value
         /\ error' = IF out.threw THEN <<out.message>> ELSE NoError
  /\ loading' = FALSE
  /\ pc' = "done"
  /\ UNCHANGED <<inspectionData, selectedShifts, sampleSize, entry, chartData, patterns>>

Next ==
  \/ CalculateAnalysisData
  \/ CalculateAnalysisDataEarlier
  \/ HandleAnalyzeStart
  \/ HandleAnalyzeResponse
  \/ AnalyzeData
  \/ HandleAnalyzePageStart
  \/ HandleAnalyzePageResponse

Spec == Init /\ [][Next]_vars

\* The pattern panel on its own: a chart is handed to SPCPatternDetection,
\* which computes the six findings.
PatternInit ==
  /\ chartData \in Charts
  /\ patterns = NoPatterns
  /\ inspectionData = <<>>
  /\ selectedShifts = {"1"}
  /\ sampleSize = 1
  /\ pc = "ready"
  /\ entry = "none"
  /\ loading = FALSE
  /\ result = NoResult
  /\ error = NoError

SPCPatternDetection ==
  /\ pc = "ready"
  /\ patterns' = [outOfControl   |-> detectOutOfControlPoints(chartData),
                  trends         |-> detectTrends(chartData),
                  shifts         |-> detectShifts(chartData),
                  oscillation    |-> detectOscillation(chartData),
                  clustering     |-> detectClustering(chartData),
                  stratification |-> detectStratification(chartData)]
  /\ pc' = "done"
  /\ entry' = "SPCPatternDetection"
  /\ UNCHANGED <<inspectionData, selectedShifts, sampleSize, loading, result, error,
                 chartData>>

PatternNext == SPCPatternDetection

PatternSpec == PatternInit /\ [][PatternNext]_vars

----------------------------------------------------------------------------
(* The claims about calculateAnalysisData, stated on the state it leaves *)

\* a record none of whose three fields is missing or parses to NaN
Kept(d) ==
  \A f \in {d.ActualSpecification, d.FromSpecification, d.ToSpecification} :
    f # Null /\ ~IsNaN(parseFloat(f))

\* a record whose three fields are present and parse as finite numbers
AllFinite(d) ==
  \A f \in {d.ActualSpecification, d.FromSpecification, d.ToSpecification} :
    f # Null /\ IsFinite(parseFloat(f))

ValidRecords == SelectSeq(inspectionData, Kept)

Measurements == MapSeq(ActualOf, ValidRecords)

FirstLsl == parseFloat(ValidRecords[1].FromSpecification)

FirstUsl == parseFloat(ValidRecords[1].ToSpecification)

Analysed == pc = "done" /\ entry = "calculateAnalysisData"

Returned == Analysed /\ result # NoResult

Failed == result = NoResult /\ error # NoError

YOf(p) == p.y

TotalFrequency(hist) ==
  LET RECURSIVE Upto(_)
      Upto(i) == IF i = 0 THEN 0 ELSE Upto(i - 1) + hist[i].y
  IN  Upto(Len(hist))

Identical(xs) == \A i, j \in 1..Len(xs) : xs[i] = xs[j]

\* every numeric field of an analysis result is a finite number
AllNumericFinite(r) ==
  /\ \A k \in DOMAIN r.metrics : IsFinite(r.metrics[k])
  /\ \A k \in DOMAIN r.controlCharts.limits : IsFinite(r.controlCharts.limits[k])
  /\ \A i \in DOMAIN r.controlCharts.xBarData : IsFinite(r.controlCharts.xBarData[i].y)
  /\ \A i \in DOMAIN r.controlCharts.rangeData : IsFinite(r.controlCharts.rangeData[i].y)
  /\ \A i \in DOMAIN r.distribution.data : IsFinite(r.distribution.data[i].x)
  /\ IsFinite(r.distribution.stats.min)
  /\ IsFinite(r.distribution.stats.max)
  /\ IsFinite(r.distribution.stats.mean)
  /\ IsFinite(r.distribution.stats.target)
  /\ \A i \in DOMAIN r.distribution.stats.binEdges :
       IsFinite(r.distribution.stats.binEdges[i])

\* C1: when the kept measurements are not all identical, the frequencies of
\* the histogram of a returned analysis add up to the number of measurements,
\* whatever the lower limit is.
C1_FrequenciesSumToN ==
  (Returned /\ ~Identical(Measurements)) =>
    TotalFrequency(result.distribution.data) = Len(Measurements)

\* C2: when usl > lsl, the reported Cpk is the smaller of the reported Cpu and
\* Cpl and the reported Ppk the smaller of the reported Ppu and Ppl (each as
\* reported: rounded to two decimals, 0 in place of a non-finite value).
C2_ReportedMinimum ==
  (Returned /\ Lt(FirstLsl, FirstUsl)) =>
    /\ result.metrics.cpk = MathMin2(result.metrics.cpu, result.metrics.cpl)
    /\ result.metrics.ppk = MathMin2(result.metrics.ppu, result.metrics.ppl)

\* C3: the analysis fails, with the insufficient-data error, exactly when no
\* record is kept or fewer than the subgroup size are; with at least that
\* many kept records it returns a result, however many records were dropped.
C3_InsufficientDataIffTooFew ==
  Analysed =>
    IF Len(ValidRecords) = 0 \/ Len(ValidRecords) < sampleSize
    THEN /\ result = NoResult
         /\ error = <<Message("Insufficient valid data for analysis", <<>>)>>
    ELSE /\ result # NoResult
         /\ error = NoError

\* C3 witness: records were dropped, at least a subgroup of two or more is
\* left, and the analysis has returned.
C3_DroppedButEnough ==
  /\ Returned
  /\ sampleSize >= 2
  /\ Len(ValidRecords) < Len(inspectionData)
  /\ Len(ValidRecords) >= sampleSize

\* C4: when the lower limit read from the first kept record is not below the
\* upper limit, the analysis fails with an error.
C4_InvalidLimitsRejected ==
  (Analysed /\ Len(ValidRecords) >= sampleSize /\ Ge(FirstLsl, FirstUsl)) => Failed

\* C5: the measurements a returned analysis charts (subgroup size 1: one
\* point per measurement) are the readings of exactly the records whose three
\* fields are present and parse as finite numbers, in the order received.
C5_KeptIffAllFinite ==
  (Returned /\ sampleSize = 1) =>
    MapSeq(YOf, result.controlCharts.xBarData)
      = MapSeq(ActualOf, SelectSeq(inspectionData, AllFinite))

\* C6: when the kept measurements give no range value at all, the analysis
\* fails with an error.
C6_EmptyRangeSeriesFails ==
  (/\ Analysed
   /\ Len(ValidRecords) >= sampleSize
   /\ calculateSubgroupRanges(Measurements, sampleSize) = <<>>) => Failed

\* C7: with fewer than two kept measurements the analysis fails with an error.
C7_DegenerateSampleFails ==
  (Analysed /\ Len(ValidRecords) < 2) => Failed

C9_IdenticalValuesFinite ==
  (/\ Analysed
   /\ sampleSize = 1
   /\ Len(inspectionData) >= 1
   /\ \A i \in DOMAIN inspectionData : AllFinite(inspectionData[i])
   /\ Identical(Measurements)) =>
    /\ result # NoResult
    /\ error = NoError
    /\ \A i \in DOMAIN result.controlCharts.rangeData :
         result.controlCharts.rangeData[i].y = Zero
    /\ result.metrics.avgRange = Zero
    /\ result.controlCharts.limits.rangeUcl = Zero
    /\ result.controlCharts.limits.xBarUcl = result.controlCharts.limits.xBarMean
    /\ result.controlCharts.limits.xBarLcl = result.controlCharts.limits.xBarMean
    /\ result.controlCharts.limits.xBarMean = result.metrics.xBar
    /\ AllNumericFinite(result)

\* C10: when records were dropped and too few are left, the error raised
\* names the number of records left after the exclusion.
C10_MessageNamesValidCount ==
  (/\ Analysed
   /\ Len(ValidRecords) < Len(inspectionData)
   /\ Len(ValidRecords) < sampleSize) =>
    /\ Failed
    /\ \E i \in DOMAIN error :
         \E j \in DOMAIN error[i].numbers :
           error[i].numbers[j] = Len(ValidRecords)

----------------------------------------------------------------------------
(* Stability, remark and 3S verdicts, restated from the charts returned *)

\* the mean series and the range series of the result
MeanChart == MapSeq(YOf, result.controlCharts.xBarData)

RangeChart == MapSeq(YOf, result.controlCharts.rangeData)

\* the centre line and the limits of the mean chart, from the two series
CentreLine == Coalesce(calculateMean(MeanChart), Zero)

LimitOffset ==
  Mul(controlChartConstants[sampleSize].A2, Coalesce(calculateMean(RangeChart), Zero))

\* some point of the mean chart lies above the UCL or below the LCL
OutOfControl ==
  \E limits \in {<<Sub(CentreLine, LimitOffset), Add(CentreLine, LimitOffset)>>} :
    \E i \in DOMAIN MeanChart :
      Gt(MeanChart[i], limits[2]) \/ Lt(MeanChart[i], limits[1])

\* some eight consecutive points lie all strictly above, or all strictly
\* below, the centre line
RunOfEight ==
  \E centre \in {CentreLine} :
    \E i \in 1..(Len(MeanChart) - 7) :
      \/ \A j \in i..(i + 7) : Gt(MeanChart[j], centre)
      \/ \A j \in i..(i + 7) : Lt(MeanChart[j], centre)

\* C11: in every result, processStability is "Stable" exactly when no point
\* of the mean chart is beyond its control limits and no eight consecutive
\* points lie on one side of the centre line; otherwise it is "Unstable".
C11_StableIffInControlAndNoRun ==
  Returned =>
    result.processInterpretation.processStability
      = IF ~OutOfControl /\ ~RunOfEight THEN "Stable" ELSE "Unstable"

\* C11 witness: a result whose points are all within the limits and which is
\* unstable by a run of eight alone.
C11_UnstableByRunAlone ==
  /\ Returned
  /\ ~OutOfControl
  /\ RunOfEight
  /\ result.processInterpretation.processStability = "Unstable"

\* the remark the thresholds 1.67, 1.45, 1.33 and 1.00 give a reported Cpk
RemarkFor(cpk) ==
  CASE Ge(cpk, Dec(167, 2)) -> "Process Excellent"
    [] Ge(cpk, Dec(145, 2)) /\ Lt(cpk, Dec(167, 2)) ->
         "Process is more capable, Scope for Further Improvement"
    [] Ge(cpk, Dec(133, 2)) /\ Lt(cpk, Dec(145, 2)) ->
         "Process is capable, Scope for Further Improvement"
    [] Ge(cpk, Dec(100, 2)) /\ Lt(cpk, Dec(133, 2)) ->
         "Process is slightly capable, need 100% inspection"
    [] Lt(cpk, Dec(100, 2)) -> "Stop Process change, process design"
    [] OTHER -> "none"

\* C12: in every result the decision remark is the one the thresholds give
\* the Cpk reported in metrics.
C12_RemarkAgreesWithReportedCpk ==
  Returned =>
    result.processInterpretation.decisionRemark = RemarkFor(result.metrics.cpk)

\* Cp, Cpk and Pp as calculateAnalysisData has them before it rounds them
Indices ==
  Capability(Ratios(Sigmas(ControlLimits(Centres(Deviation(
    Statistics(Measurements, FirstLsl, FirstUsl, sampleSize)))))))

\* C13: in every result processShift is "Yes" exactly when Cpk < 0.75 Cp,
\* processSpread is "Yes" exactly when Cp < 1, and the special-cause verdict
\* is "Special Cause Detection impossible" exactly when Pp >= Cp, otherwise
\* "Yes" exactly when Pp < 0.75 Cp, otherwise "No".
C13_VerdictsFromCpCpkPp ==
  Returned =>
    \E s \in {Indices} :
      \E threeQuarterCp \in {SurdTimes(Dec(75, 2), s.cp)} :
        /\ result.ssAnalysis.processShift \in {"Yes", "No"}
        /\ result.ssAnalysis.processShift = "Yes" <=> SurdLt(s.cpk, threeQuarterCp)
        /\ result.ssAnalysis.processSpread \in {"Yes", "No"}
        /\ result.ssAnalysis.processSpread = "Yes" <=> SurdLt(s.cp, SurdOf(Num(1)))
        /\ result.ssAnalysis.specialCausePresent
             \in {"Special Cause Detection impossible", "Yes", "No"}
        /\ result.ssAnalysis.specialCausePresent = "Special Cause Detection impossible"
             <=> SurdGe(s.pp, s.cp)
        /\ ~SurdGe(s.pp, s.cp) =>
             (result.ssAnalysis.specialCausePresent = "Yes"
                <=> SurdLt(s.pp, threeQuarterCp))

\* C13 witness: a result with a special cause, a shift and a spread beyond
\* the limits all reported.
C13_AllThreeYes ==
  /\ Returned
  /\ result.ssAnalysis.processShift = "Yes"
  /\ result.ssAnalysis.processSpread = "Yes"
  /\ result.ssAnalysis.specialCausePresent = "Yes"

----------------------------------------------------------------------------
(* The claims about the pattern detectors, stated on the findings computed *)

Detected == pc = "done" /\ entry = "SPCPatternDetection"

\* the mean series of the chart
Series == MapSeq(YOf, chartData.xBarData)

\* the points first .. first + count - 1 rise strictly, or fall strictly
Monotone(first, count) ==
  \/ \A j \in first..(first + count - 2) : Lt(Series[j], Series[j + 1])
  \/ \A j \in first..(first + count - 2) : Gt(Series[j], Series[j + 1])

\* the windows of seven consecutive points that are strictly monotone
TrendWindows == {i \in 1..(Len(Series) - 6) : Monotone(i, 7)}

\* C14: a trend is reported exactly when seven consecutive points of the
\* series rise strictly or fall strictly; the indices reported are then the
\* seven positions of such a run, and on the series 1..7 they are 1..7.
C14_TrendIffSevenMonotone ==
  Detected =>
    /\ patterns.trends.detected <=> TrendWindows # {}
    /\ patterns.trends.detected =>
         \E i \in TrendWindows :
           patterns.trends.pointIndices = [k \in 1..7 |-> i + k - 1]
    /\ chartData = RisingChart =>
         /\ patterns.trends.detected
         /\ patterns.trends.pointIndices = <<1, 2, 3, 4, 5, 6, 7>>

\* C14 witness: a trend found in a series of more than seven points whose
\* run does not start at the first point.
C14_TrendLaterInSeries ==
  /\ Detected
  /\ patterns.trends.detected
  /\ Len(Series) > 7
  /\ patterns.trends.pointIndices[1] > 1

\* the windows of eight consecutive points on one side of the centre line
AboveWindows ==
  {i \in 1..(Len(Series) - 7) :
     \A j \in i..(i + 7) : Gt(Series[j], chartData.limits.xBarMean)}

BelowWindows ==
  {i \in 1..(Len(Series) - 7) :
     \A j \in i..(i + 7) : Lt(Series[j], chartData.limits.xBarMean)}

\* C15: a shift is reported exactly when eight consecutive points lie all
\* strictly above or all strictly below the centre line; the description
\* names the side of the run reported, and eight points of value 5 against
\* the centre line 10 are reported as a shift below it.
C15_ShiftIffEightOneSide ==
  Detected =>
    /\ patterns.shifts.detected <=> (AboveWindows \cup BelowWindows) # {}
    /\ patterns.shifts.detected =>
         \/ /\ patterns.shifts.pointIndices[1] \in AboveWindows
            /\ patterns.shifts.description
                 = Message("{0} consecutive points above center line", <<8>>)
         \/ /\ patterns.shifts.pointIndices[1] \in BelowWindows
            /\ patterns.shifts.description
                 = Message("{0} consecutive points below center line", <<8>>)
    /\ chartData = FivesChart =>
         /\ patterns.shifts.detected
         /\ patterns.shifts.description
              = Message("{0} consecutive points below center line", <<8>>)

\* C15 witness: a shift above the centre line found in a series that moves.
C15_ShiftAboveFound ==
  /\ Detected
  /\ patterns.shifts.detected
  /\ patterns.shifts.pointIndices[1] \in AboveWindows
  /\ \E i \in DOMAIN Series : Series[i] # Series[1]

----------------------------------------------------------------------------
(* The claims about the sigmas, the subgroups and the control limits.  They *)
(* are stated on the results of both calculateAnalysisData functions and,   *)
(* where analyzeData is named, on its results too.                          *)

AnalysedByEither ==
  pc = "done" /\ entry \in {"calculateAnalysisData", "calculateAnalysisDataEarlier"}

\* the overall sigma of the measurements is exactly 0
OverallZero == Len(Measurements) >= 1 /\ Identical(Measurements)

\* the within-subgroup sigma is exactly 0: the overall sigma for subgroup
\* size 1, otherwise the average of the ranges of the chunks
WithinZero ==
  IF sampleSize = 1 THEN OverallZero
  ELSE \A i, j \in 1..Len(Measurements) :
         (i - 1) \div sampleSize = (j - 1) \div sampleSize
           => Measurements[i] = Measurements[j]

\* a ratio of divisor k sigma, with sigma 0.000001, as metrics reports it
Clamped(numerator, k) == ToFixed(Div(numerator, Mul(Num(k), SigmaEpsilon)), 2)

CpFamilyClamped ==
  /\ result.metrics.cp = Clamped(Sub(FirstUsl, FirstLsl), 6)
  /\ result.metrics.cpu = Clamped(Sub(FirstUsl, CentreLine), 3)
  /\ result.metrics.cpl = Clamped(Sub(CentreLine, FirstLsl), 3)

PpFamilyClamped ==
  /\ result.metrics.pp = Clamped(Sub(FirstUsl, FirstLsl), 6)
  /\ result.metrics.ppu = Clamped(Sub(FirstUsl, CentreLine), 3)
  /\ result.metrics.ppl = Clamped(Sub(CentreLine, FirstLsl), 3)

\* C16: when a sigma is exactly 0 on a request with enough valid records and
\* finite limits, the analysis returns without an error and the ratios that
\* divide by that sigma are those computed with 0.000001 in its place; for
\* analyzeData, which has the one sigma, every result of identical readings
\* carries the ratios so computed.
C16_ZeroSigmaClamped ==
  /\ (/\ AnalysedByEither
      /\ Len(Measurements) >= sampleSize
      /\ IsFinite(FirstLsl) /\ IsFinite(FirstUsl)) =>
       /\ WithinZero => (result # NoResult /\ error = NoError /\ CpFamilyClamped)
       /\ OverallZero => (result # NoResult /\ error = NoError /\ PpFamilyClamped)
  /\ (/\ pc = "done" /\ entry = "analyzeData" /\ result # NoResult
      /\ Len(Measurements) >= 2 /\ OverallZero) =>
       /\ result.metrics.cp = Clamped(Sub(FirstUsl, FirstLsl), 6)
       /\ result.metrics.pp = Clamped(Sub(FirstUsl, FirstLsl), 6)

\* the k-th consecutive chunk of sampleSize measurements, the last one
\* possibly shorter
Chunk(k) ==
  SubSeq(Measurements, (k - 1) * sampleSize + 1,
         IF k * sampleSize < Len(Measurements) THEN k * sampleSize ELSE Len(Measurements))

ChunkCount == (Len(Measurements) + sampleSize - 1) \div sampleSize

\* r is the largest member of the chunk less the smallest
IsRangeOf(r, chunk) ==
  \E hi, lo \in DOMAIN chunk :
    /\ \A m \in DOMAIN chunk : Le(chunk[m], chunk[hi]) /\ Ge(chunk[m], chunk[lo])
    /\ r = Sub(chunk[hi], chunk[lo])

\* C17: for a subgroup size of 2 to 5 every result has one mean per chunk,
\* the arithmetic mean of its members, and one range, largest less smallest,
\* for each chunk of two or more members and none for a trailing chunk of
\* one; twelve readings in subgroups of 5 give 3 means and 3 ranges.
C17_ChunkMeansAndRanges ==
  (AnalysedByEither /\ result # NoResult /\ sampleSize \in 2..5) =>
    /\ Len(MeanChart) = ChunkCount
    /\ \A k \in DOMAIN MeanChart :
         MeanChart[k] = Div(Sum(Chunk(k)), Num(Len(Chunk(k))))
    /\ Len(RangeChart) = Cardinality({k \in 1..ChunkCount : Len(Chunk(k)) >= 2})
    /\ \A k \in DOMAIN RangeChart : IsRangeOf(RangeChart[k], Chunk(k))
    /\ (inspectionData = TwelveRequest /\ sampleSize = 5) =>
         Len(MeanChart) = 3 /\ Len(RangeChart) = 3

\* C18: a call of calculateAnalysisData with subgroup size 1 that returns
\* leaves the records as they were, and returns as mean series the
\* measurements themselves, in order, and as range series the N - 1 moving
\* ranges |x[i+1] - x[i]|.
C18_IndividualsAndMovingRange ==
  [][(/\ pc = "ready"
      /\ entry' = "calculateAnalysisData"
      /\ sampleSize = 1
      /\ result' # NoResult) =>
       /\ inspectionData' = inspectionData
       /\ MeanChart' = Measurements
       /\ Len(RangeChart') = Len(Measurements) - 1
       /\ \A i \in DOMAIN RangeChart' :
            RangeChart'[i] = Abs(Sub(Measurements[i + 1], Measurements[i]))]_vars

\* C18 witness: a result for subgroup size 1 of three or more readings, one
\* of them lower than the reading before it.
C18_FallingStepAnalysed ==
  /\ Returned
  /\ sampleSize = 1
  /\ Len(Measurements) >= 3
  /\ \E i \in 1..(Len(Measurements) - 1) : Lt(Measurements[i + 1], Measurements[i])

\* the factors A2, D3 and D4 as the claim lists them, in thousandths
ClaimedFactors ==
  [n \in 1..5 |->
     CASE n = 1 -> <<2660, 0, 3267>>
       [] n = 2 -> <<1880, 0, 3267>>
       [] n = 3 -> <<1772, 0, 2574>>
       [] n = 4 -> <<796, 0, 2282>>
       [] n = 5 -> <<691, 0, 2114>>]

\* the average of the subgroup ranges of the result
AverageRange == Coalesce(calculateMean(RangeChart), Zero)

\* C19: in every result the limits reported, to four decimals, are: for the
\* mean chart the centre grandMean and grandMean +/- A2 avgRange, for the
\* range chart the centre avgRange, D4 avgRange above and max(0, D3 avgRange)
\* below, with the factors of the table for the subgroup size; and the points
\* reported outside the limits are those outside these limits unrounded.
C19_LimitsFromTable ==
  Returned =>
    \E f \in {ClaimedFactors[sampleSize]} :
      /\ result.ssAnalysis.pointsOutsideLimits
           = PointsText(Cardinality(
               {i \in DOMAIN MeanChart :
                  \/ Gt(MeanChart[i], Add(CentreLine, Mul(Dec(f[1], 3), AverageRange)))
                  \/ Lt(MeanChart[i], Sub(CentreLine, Mul(Dec(f[1], 3), AverageRange)))}))
      /\ result.ssAnalysis.rangePointsOutsideLimits
           = PointsText(Cardinality(
               {i \in DOMAIN RangeChart :
                  \/ Gt(RangeChart[i], Mul(Dec(f[3], 3), AverageRange))
                  \/ Lt(RangeChart[i], MathMax2(Zero, Mul(Dec(f[2], 3), AverageRange)))}))
      /\ result.controlCharts.limits.xBarMean = ToFixed(CentreLine, 4)
      /\ result.controlCharts.limits.xBarUcl
           = ToFixed(Add(CentreLine, Mul(Dec(f[1], 3), AverageRange)), 4)
      /\ result.controlCharts.limits.xBarLcl
           = ToFixed(Sub(CentreLine, Mul(Dec(f[1], 3), AverageRange)), 4)
      /\ result.controlCharts.limits.rangeMean = ToFixed(AverageRange, 4)
      /\ result.controlCharts.limits.rangeUcl
           = ToFixed(Mul(Dec(f[3], 3), AverageRange), 4)
      /\ result.controlCharts.limits.rangeLcl
           = ToFixed(MathMax2(Zero, Mul(Dec(f[2], 3), AverageRange)), 4)

\* C19 witness: a result for subgroups of 3 whose ranges are not all zero.
C19_SubgroupsOfThreeCharted ==
  /\ Returned
  /\ sampleSize = 3
  /\ Len(MeanChart) >= 2
  /\ Gt(AverageRange, Zero)
  /\ Gt(result.controlCharts.limits.xBarUcl, result.controlCharts.limits.xBarMean)

\* the sample standard deviation of the measurements: the root of the sum
\* of the squared deviations from their mean over N - 1
SampleStdDev ==
  MathSqrt(Div(Sum(SquaredDiffs(Measurements, calculateMean(Measurements))),
               Num(Len(Measurements) - 1)))

\* C20: in every result for two or more measurements, from either
\* calculateAnalysisData or from analyzeData, stdDevOverall is the sample
\* standard deviation to four decimals and, the limits being finite and the
\* deviation not 0, Pp is (usl - lsl) over six times it.
C20_OverallIsSampleStdDev ==
  (/\ pc = "done"
   /\ entry \in {"calculateAnalysisData", "calculateAnalysisDataEarlier", "analyzeData"}
   /\ result # NoResult
   /\ Len(Measurements) >= 2) =>
    \E sigma \in {SampleStdDev} :
      /\ result.metrics.stdDevOverall = SurdToFixed(sigma, 4)
      /\ (IsFinite(FirstLsl) /\ IsFinite(FirstUsl) /\ ~SurdEq(sigma, SurdOf(Zero))) =>
           result.metrics.pp
             = SurdToFixed(DivBySurd(Sub(FirstUsl, FirstLsl), SurdTimes(Num(6), sigma)), 2)

----------------------------------------------------------------------------
(* The sigma basis of the ratios and the bins of the histogram.  They are   *)
(* stated on the results of calculateAnalysisData and on those of           *)
(* SPCAnalysisPage, which charts every record of the shift.                 *)

AnalysedByPage == pc = "done" /\ entry = "SPCAnalysisPage"

\* the measurements an analysis works on, and the limits it reads
Charted == IF entry = "SPCAnalysisPage" THEN MeanChart ELSE Measurements

ReadLsl ==
  IF entry = "SPCAnalysisPage"
  THEN parseFloat(FilterByShift(inspectionData, selectedShifts)[1].FromSpecification)
  ELSE FirstLsl

ReadUsl ==
  IF entry = "SPCAnalysisPage"
  THEN parseFloat(FilterByShift(inspectionData, selectedShifts)[1].ToSpecification)
  ELSE FirstUsl

\* the upper and lower one-sided ratios as the two results name them
ReportedCpu ==
  IF entry = "SPCAnalysisPage" THEN result.metrics.cpkUpper ELSE result.metrics.cpu

ReportedCpl ==
  IF entry = "SPCAnalysisPage" THEN result.metrics.cpkLower ELSE result.metrics.cpl

\* the d2 factors as the claim lists them for n = 2..5, in thousandths
ClaimedD2 ==
  [n \in 2..5 |->
     CASE n = 2 -> 1128 [] n = 3 -> 1693 [] n = 4 -> 2059 [] n = 5 -> 2326]

\* the roots of sq / n and of sq / (n - 1)
RootsOver(sq, n) == {MathSqrt(Div(sq, Num(n))), MathSqrt(Div(sq, Num(n - 1)))}

\* the standard deviations of the measurements about their mean, with the
\* divisor N and with the divisor N - 1
StdDevs ==
  RootsOver(Sum(SquaredDiffs(Charted, Div(Sum(Charted), Num(Len(Charted))))),
            Len(Charted))

\* numerator / (k sigma), as metrics reports a ratio
RatioOver(numerator, k, sigma) ==
  SurdToFixed(DivBySurd(numerator, SurdTimes(Num(k), sigma)), 2)

\* the three ratios of a family are those over the sigma given
CpFamilyOver(sigma) ==
  /\ result.metrics.cp = RatioOver(Sub(ReadUsl, ReadLsl), 6, sigma)
  /\ ReportedCpu = RatioOver(Sub(ReadUsl, CentreLine), 3, sigma)
  /\ ReportedCpl = RatioOver(Sub(CentreLine, ReadLsl), 3, sigma)

PpFamilyOver(sigma) ==
  /\ result.metrics.pp = RatioOver(Sub(ReadUsl, ReadLsl), 6, sigma)
  /\ result.metrics.ppu = RatioOver(Sub(ReadUsl, CentreLine), 3, sigma)
  /\ result.metrics.ppl = RatioOver(Sub(CentreLine, ReadLsl), 3, sigma)

\* the within-subgroup sigma the claim gives for an overall sigma
WithinFor(overall) ==
  IF sampleSize = 1 THEN overall
  ELSE SurdOf(Div(AverageRange, Dec(ClaimedD2[sampleSize], 3)))

\* C21: in every result with finite limits, with overallStdDev the standard
\* deviation of the measurements that the result reports as stdDevOverall,
\* and withinStdDev = avgRange / d2(n) for n > 1 (d2 = 1.128, 1.693, 2.059,
\* 2.326) and = overallStdDev for n = 1: Cp, Cpu and Cpl are (usl - lsl) / 6s,
\* (usl - grandMean) / 3s and (grandMean - lsl) / 3s over s = withinStdDev
\* when that is not 0, and Pp, Ppu and Ppl are the same over s = overallStdDev
\* when that is not 0.
C21_RatiosOverTheirSigma ==
  (/\ pc = "done"
   /\ entry \in {"calculateAnalysisData", "SPCAnalysisPage"}
   /\ result # NoResult
   /\ IsFinite(ReadLsl) /\ IsFinite(ReadUsl)) =>
    \E overall \in StdDevs :
      /\ result.metrics.stdDevOverall = SurdToFixed(overall, 4)
      /\ ~SurdEq(overall, SurdOf(Zero)) => PpFamilyOver(overall)
      /\ \E within \in {WithinFor(overall)} :
           ~SurdEq(within, SurdOf(Zero)) => CpFamilyOver(within)

\* C21 witness: a result of calculateAnalysisData for subgroups of two or
\* more whose two sigmas differ and are not 0, so that Cp and Pp differ.
C21_WithinAndOverallDiffer ==
  /\ Returned
  /\ sampleSize >= 2
  /\ IsFinite(FirstLsl) /\ IsFinite(FirstUsl)
  /\ Gt(result.metrics.cp, Zero)
  /\ Gt(result.metrics.pp, Zero)
  /\ result.metrics.cp # result.metrics.pp
  /\ Lt(result.metrics.pp, Num(100))
  /\ Lt(result.metrics.cp, Num(100))

\* k brought into 0 .. binCount - 1
ClampedInto(k, binCount) ==
  IF k < 0 THEN 0 ELSE IF k > binCount - 1 THEN binCount - 1 ELSE k

\* the 0-based bin the claim gives a value: the last one for the maximum,
\* otherwise floor((value - binStart) / binWidth) brought into 0 .. binCount - 1
ClaimedBin(value, max, binStart, binWidth, binCount) ==
  IF value = max THEN binCount - 1
  ELSE ClampedInto(Floor(Div(Sub(value, binStart), binWidth))[1], binCount)

\* the frequencies the claim gives the measurements xs for a lower limit lsl
ClaimedFrequencies(xs, lsl, min, max, binCount) ==
  [b \in 1..binCount |->
     Cardinality({i \in DOMAIN xs :
                    ClaimedBin(xs[i], max, MathMin2(min, lsl),
                               Div(Sub(max, min), Num(binCount)), binCount) = b - 1})]

\* C22: in every result for finite measurements and a finite lower limit
\* the histogram has ceil(sqrt(N)) bins and the frequency of each bin is the
\* number of measurements whose index floor((value - binStart) / binWidth),
\* with binStart = min(min, lsl) and binWidth = (max - min) / binCount and
\* brought into 0 .. binCount - 1, is that bin, every occurrence of the
\* maximum being counted in the last bin: no measurement is left out.
C22_BinPlacement ==
  (/\ pc = "done"
   /\ entry \in {"calculateAnalysisData", "SPCAnalysisPage"}
   /\ result # NoResult
   /\ \A i \in DOMAIN Charted : IsFinite(Charted[i])
   /\ IsFinite(ReadLsl)) =>
    /\ Len(result.distribution.data) = CeilSqrt(Len(Charted))
    /\ MapSeq(YOf, result.distribution.data)
         = ClaimedFrequencies(Charted, ReadLsl, MathMin(Charted), MathMax(Charted),
                              CeilSqrt(Len(Charted)))

----------------------------------------------------------------------------
(* The out-of-control, oscillation and stratification checks, stated on the *)
(* findings computed                                                         *)

\* the positions of the points above the UCL or below the LCL
Offending ==
  {i \in DOMAIN Series :
     \/ Gt(Series[i], chartData.limits.xBarUcl)
     \/ Lt(Series[i], chartData.limits.xBarLcl)}

\* the positions of the points exactly on a limit
OnALimit ==
  {i \in DOMAIN Series : Series[i] \in {chartData.limits.xBarUcl, chartData.limits.xBarLcl}}

\* C23: the out-of-control finding is detected exactly when some point of
\* the mean series is above the UCL or below the LCL, a point on a limit
\* being in control; its pointIndices are the 1-based positions of all those
\* points and of no other, in increasing order.
C23_OutOfControlIffBeyondLimits ==
  Detected =>
    /\ patterns.outOfControl.detected <=> Offending # {}
    /\ Len(patterns.outOfControl.pointIndices) = Cardinality(Offending)
    /\ \A k \in DOMAIN patterns.outOfControl.pointIndices :
         /\ patterns.outOfControl.pointIndices[k] \in Offending
         /\ k > 1 => patterns.outOfControl.pointIndices[k - 1]
                       < patterns.outOfControl.pointIndices[k]

\* C23 witness: a finding with two or more points beyond a limit in a series
\* that also has a point exactly on that limit and points within the limits.
C23_SomeBeyondSomeOnLimit ==
  /\ Detected
  /\ patterns.outOfControl.detected
  /\ Cardinality(Offending) >= 2
  /\ OnALimit # {}
  /\ Cardinality(Offending \cup OnALimit) < Len(Series)

\* the step from point k to point k + 1 is a move up, or a move down
StepUp(k) == Lt(Series[k], Series[k + 1])

StepDown(k) == Gt(Series[k], Series[k + 1])

\* step k is an up or a down move opposite in direction to step k - 1
Alternation(k) ==
  \/ StepUp(k) /\ StepDown(k - 1)
  \/ StepDown(k) /\ StepUp(k - 1)

\* the steps from which 14 alternations follow one another
AlternationRuns ==
  {i \in 2..(Len(Series) - 14) : \A k \in i..(i + 13) : Alternation(k)}

\* C24: oscillation is detected exactly when the mean series has 14
\* successive steps each of which is an up or a down move opposite in
\* direction to the step before it; a step that repeats the direction of the
\* one before, or a step between equal values, is no alternation.
C24_OscillationIffFourteenAlternations ==
  Detected => (patterns.oscillation.detected <=> AlternationRuns # {})

\* the first points of the windows of 15 consecutive points each within
\* (UCL - LCL) / 6 of the centre line
CloseWindows ==
  {i \in 1..(Len(Series) - 14) :
     \A j \in i..(i + 14) :
       Le(Abs(Sub(Series[j], chartData.limits.xBarMean)),
          Div(Sub(chartData.limits.xBarUcl, chartData.limits.xBarLcl), Num(6)))}

\* C25: stratification is detected exactly when the mean series has 15
\* consecutive points each at most (UCL - LCL) / 6 away from the centre line;
\* the pointIndices are then the 15 positions of the first such window.
C25_StratificationIffFifteenClose ==
  Detected =>
    /\ patterns.stratification.detected <=> CloseWindows # {}
    /\ patterns.stratification.detected =>
         \E i \in CloseWindows :
           /\ \A m \in CloseWindows : i <= m
           /\ patterns.stratification.pointIndices = [k \in 1..15 |-> i + k - 1]

\* C25 witness: stratification found in a window that does not start at the
\* first point and has a point exactly (UCL - LCL) / 6 from the centre line.
C25_LaterWindowTouchingThreshold ==
  /\ Detected
  /\ patterns.stratification.detected
  /\ patterns.stratification.pointIndices[1] > 1
  /\ \E k \in DOMAIN patterns.stratification.pointIndices :
       Abs(Sub(Series[patterns.stratification.pointIndices[k]],
               chartData.limits.xBarMean)) = Num(1)

----------------------------------------------------------------------------
(* Relations between the indices, the grades and the verdicts of a result *)

AnalysedByLib == pc = "done" /\ entry = "analyzeData"

\* C26: every result of calculateAnalysisData for subgroup size 1 reports Pp
\* equal to Cp and the special-cause verdict "Special Cause Detection
\* impossible"; every result of analyzeData carries that verdict too.
C26_SpecialCauseImpossibleForIndividuals ==
  /\ (Returned /\ sampleSize = 1) =>
       /\ result.metrics.pp = result.metrics.cp
       /\ result.ssAnalysis.specialCausePresent = "Special Cause Detection impossible"
  /\ (AnalysedByLib /\ result # NoResult) =>
       /\ result.metrics.pp = result.metrics.cp
       /\ result.ssAnalysis.specialCause = "Special Cause Detection impossible"

\* the place of a grade in the order Poor < Good < Excellent
GradeRank(grade) ==
  CASE grade = "Poor" -> 1 [] grade = "Good" -> 2 [] grade = "Excellent" -> 3

\* C27: in every result of calculateAnalysisData the Cpk reported is at most
\* the Cp reported and the Ppk at most the Pp, and processPerformance is no
\* better a grade than processPotential.
C27_PerformanceNotAbovePotential ==
  Returned =>
    /\ Le(result.metrics.cpk, result.metrics.cp)
    /\ Le(result.metrics.ppk, result.metrics.pp)
    /\ GradeRank(result.processInterpretation.processPerformance)
         <= GradeRank(result.processInterpretation.processPotential)

----------------------------------------------------------------------------
(* Which measurements the histogram counts *)

\* the measurements below the maximum whose index floor((value - lsl) /
\* binWidth) is binCount or more, for a lower limit below the minimum
BeyondLastBin(xs, lsl, min, max, binCount) ==
  {i \in DOMAIN xs :
     /\ Lt(lsl, min)
     /\ Lt(xs[i], max)
     /\ Ge(Floor(Div(Sub(xs[i], lsl), Div(Sub(max, min), Num(binCount)))),
           Num(binCount))}

\* C28: in every result of calculateAnalysisData and of analyzeData, the
\* frequencies of the histogram add up to N when the lower limit is not
\* below the smallest measurement or the measurements are all identical; and
\* the measurements left uncounted are never more than those below the
\* maximum whose index floor((value - lsl) / binWidth), for a lower limit
\* below the minimum, is binCount or more.
C28_UncountedOnlyBeyondLastBin ==
  (/\ pc = "done"
   /\ entry \in {"calculateAnalysisData", "analyzeData"}
   /\ result # NoResult) =>
    \E total \in {TotalFrequency(result.distribution.data)} :
      /\ total <= Len(Measurements)
      /\ (Ge(FirstLsl, MathMin(Measurements)) \/ Identical(Measurements)) =>
           total = Len(Measurements)
      /\ Len(Measurements) - total
           <= Cardinality(BeyondLastBin(Measurements, FirstLsl, MathMin(Measurements),
                                        MathMax(Measurements),
                                        CeilSqrt(Len(Measurements))))

\* C28 witness: a result for four or more measurements, not all identical,
\* with the lower limit at the smallest of them: every one is counted.
C28_AllCountedFromTheMinimum ==
  /\ Returned
  /\ Len(Measurements) >= 4
  /\ ~Identical(Measurements)
  /\ FirstLsl = MathMin(Measurements)
  /\ Lt(FirstLsl, FirstUsl)
  /\ TotalFrequency(result.distribution.data) = Len(Measurements)

----------------------------------------------------------------------------
(* The shift verdict of a result against the shift detector of the charts *)

\* the mean series of the result as a chart whose centre line is the mean of
\* that series
ShiftChart ==
  [xBarData |-> result.controlCharts.xBarData,
   limits   |-> [xBarMean |-> calculateMean(MeanChart)]]

\* C29: in every result of calculateAnalysisData, of spcUtils.ts and of the
\* earlier part_002 alike, eightConsecutivePoints is "Yes" and
\* processInterpretation.processShift is "Present" exactly when detectShifts,
\* on the mean series of the result with the mean of that series for centre
\* line, reports a shift.
C29_ShiftDetectorsAgree ==
  (AnalysedByEither /\ result # NoResult) =>
    \E shift \in {detectShifts(ShiftChart).detected} :
      /\ result.ssAnalysis.eightConsecutivePoints = "Yes" <=> shift
      /\ result.processInterpretation.processShift = "Present" <=> shift

----------------------------------------------------------------------------
(* The order of the control limits of a result *)

\* C30: in every result of calculateAnalysisData the limits of the mean chart
\* satisfy LCL <= centre <= UCL with UCL - centre = centre - LCL, and those
\* of the range chart satisfy LCL = 0 <= centre <= UCL.
C30_ControlLimitsOrdered ==
  Returned =>
    \E l \in {result.controlCharts.limits} :
      /\ Le(l.xBarLcl, l.xBarMean)
      /\ Le(l.xBarMean, l.xBarUcl)
      /\ Sub(l.xBarUcl, l.xBarMean) = Sub(l.xBarMean, l.xBarLcl)
      /\ l.rangeLcl = Zero
      /\ Le(Zero, l.rangeMean)
      /\ Le(l.rangeMean, l.rangeUcl)


\* C30 as amended: the limits of the mean chart are centre - offset, centre
\* and centre + offset, for the mean of the mean series and A2 times the mean
\* of the range series, each rounded to four decimals: they are in order,
\* and the two distances from the centre differ by 0.0001 at the most; the
\* limits of the range chart satisfy LCL = 0 <= centre <= UCL.
C30_ControlLimitsOrderedAsRounded ==
  Returned =>
    \E l \in {result.controlCharts.limits} :
      \E centre \in {CentreLine}, offset \in {LimitOffset} :
        /\ l.xBarUcl = ToFixed(Add(centre, offset), 4)
        /\ l.xBarMean = ToFixed(centre, 4)
        /\ l.xBarLcl = ToFixed(Sub(centre, offset), 4)
        /\ Le(l.xBarLcl, l.xBarMean)
        /\ Le(l.xBarMean, l.xBarUcl)
        /\ Le(Abs(Sub(Sub(l.xBarUcl, l.xBarMean), Sub(l.xBarMean, l.xBarLcl))),
              Dec(1, 4))
        /\ l.rangeLcl = Zero
        /\ Le(Zero, l.rangeMean)
        /\ Le(l.rangeMean, l.rangeUcl)

\* C30 witness: a result whose mean-chart limits lie apart and at unequal
\* reported distances from the reported centre.
C30_RoundedLimitsUnevenlySpaced ==
  /\ Returned
  /\ \E l \in {result.controlCharts.limits} :
       /\ Lt(l.xBarLcl, l.xBarMean)
       /\ Lt(l.xBarMean, l.xBarUcl)
       /\ Lt(Zero, l.rangeMean)
       /\ Sub(l.xBarUcl, l.xBarMean) # Sub(l.xBarMean, l.xBarLcl)

====
